---- MODULE Spec2Model ----
(***************************************************************************)
(* prefixopt: set algebra over lists of CIDR prefixes.                     *)
(*                                                                         *)
(* The model covers the canonicalizer pipeline (core/pipeline.py), the     *)
(* subtractor (core/operations/subtractor.py), the public API built on     *)
(* them (api.py), the readers and the normalizer (data/file_reader.py)     *)
(* and the keep-comments, split, check, exclude, add and diff verbs of    *)
(* the CLI (cli/).                                                         *)
(* Addresses are scaled down: an IPv4 address has V4Bits                   *)
(* bits and an IPv6 address V6Bits bits instead of 32 and 128; every       *)
(* operation is computed on the integers exactly as the code computes it.  *)
(* Input lists hold IPv6 prefixes of length at most MaxLen6; the runs of   *)
(* the overlap scan and of the hole punch draw from every prefix.          *)
(* The normalizer works on candidates as text and keeps the real widths.   *)
(***************************************************************************)
EXTENDS Integers, Sequences, FiniteSets, TLC

\* ------------------------------------------------------------------ bounds
V4Bits == 1      \* width of a v4 address in the model (32 in the program)
V6Bits == 2      \* width of a v6 address in the model (128 in the program)
MaxLen6 == 0     \* longest v6 prefix length in an input list
MaxA == 2        \* longest first input list
MaxB == 1        \* longest second input list
MaxS == 3        \* longest input list of the pipeline
MaxFuseA == 3    \* longest source list of the subtract runs with few excludes
MaxFuseB == 0    \* longest exclude list of those runs

\* Limit of the safety fuse.  The program sets 2_000_000; the model keeps
\* the comparison and scales the number so that the fuse can be reached.
MAX_OUTPUT_FRAGMENTS == 2

VARIABLES
    source_a,   \* first input of the operation (a list of IPNet values, or
                \* the lines or items of a file)
    source_b,   \* second input of the operation
    target,     \* explicit argument of the operation, <<>> if none
    flags,      \* keyword flags of the operation
    op,         \* the operation that ran, "none" before it
    result,     \* what it returned: [status, value]
    sub         \* locals of a running loop (subtract_networks, a reader)
vars == <<source_a, source_b, target, flags, op, result, sub>>

\* ------------------------------------------------------- ipaddress values
RECURSIVE Pow2(_)
Pow2(n) == IF n <= 0 THEN 1 ELSE 2 * Pow2(n - 1)

max_prefixlen(v) == IF v = 4 THEN V4Bits ELSE V6Bits

num_addresses(n) == Pow2(max_prefixlen(n.version) - n.prefixlen)

broadcast_address(n) == n.network_address + num_addresses(n) - 1

\* ip_network(address/len, strict=False): host bits are masked away.
ip_network(v, addr, len) ==
    LET size == Pow2(max_prefixlen(v) - len)
    IN  [version |-> v, network_address |-> addr - (addr % size), prefixlen |-> len]

\* Every IPv4Network / IPv6Network value of the scaled address space.
AllNets ==
    { ip_network(v, a, l) :
        <<v, a, l>> \in UNION { {v} \X (0 .. Pow2(max_prefixlen(v)) - 1) \X (0 .. max_prefixlen(v))
                                : v \in {4, 6} } }

\* The prefixes of the input lists: every v4 prefix, and the v6 prefixes
\* of length at most MaxLen6.
IPNet == { n \in AllNets : n.version = 6 => n.prefixlen <= MaxLen6 }

\* The closed integer interval of a prefix, tagged with its family.
addresses(n) == { <<n.version, a>> : a \in n.network_address .. broadcast_address(n) }

Range(s) == { s[i] : i \in DOMAIN s }

\* Addresses covered by a list (or set) of prefixes.
Cover(nets) == UNION { addresses(n) : n \in nets }
CoverOf(s) == Cover(Range(s))

\* address in network; always false across families (ipaddress.__contains__).
Contains(net, v, addr) ==
    /\ v = net.version
    /\ net.network_address <= addr
    /\ addr <= broadcast_address(net)

\* ipaddress overlaps(): one end of one network lies inside the other.
overlaps(self, other) ==
    \/ Contains(self, other.version, other.network_address)
    \/ Contains(self, other.version, broadcast_address(other))
    \/ Contains(other, self.version, self.network_address)
    \/ Contains(other, self.version, broadcast_address(self))

\* core.ip_utils.is_subnet_of: a lies inside b, same family.
is_subnet_of(a, b) ==
    /\ a.version = b.version
    /\ b.network_address <= a.network_address
    /\ broadcast_address(b) >= broadcast_address(a)

\* The two halves of a network (ipaddress subnets()).
lower_half(n) == [version |-> n.version, network_address |-> n.network_address,
                  prefixlen |-> n.prefixlen + 1]
upper_half(n) == [version |-> n.version,
                  network_address |-> n.network_address + (num_addresses(n) \div 2),
                  prefixlen |-> n.prefixlen + 1]

\* ipaddress address_exclude(): other is strictly inside self; halve self
\* repeatedly, yielding the half that does not hold other.
RECURSIVE address_exclude(_, _)
address_exclude(self, other) ==
    IF self = other THEN <<>>
    ELSE LET s1 == lower_half(self)
             s2 == upper_half(self)
         IN  IF is_subnet_of(other, s1)
             THEN <<s2>> \o address_exclude(s1, other)
             ELSE <<s1>> \o address_exclude(s2, other)

\* ------------------------------------------------------------ canonicalizer
\* Broadest-first key: (family, base address, prefix length), ascending.
sort_key_le(a, b) ==
    \/ a.version < b.version
    \/ /\ a.version = b.version
       /\ \/ a.network_address < b.network_address
          \/ /\ a.network_address = b.network_address
             /\ a.prefixlen <= b.prefixlen

RECURSIVE insert_sorted(_, _)
insert_sorted(s, x) ==
    IF s = <<>> THEN <<x>>
    ELSE IF sort_key_le(s[Len(s)], x) THEN Append(s, x)
         ELSE Append(insert_sorted(SubSeq(s, 1, Len(s) - 1), x), s[Len(s)])

RECURSIVE sort_networks(_)
sort_networks(s) ==
    IF s = <<>> THEN <<>>
    ELSE insert_sorted(sort_networks(SubSeq(s, 1, Len(s) - 1)), s[Len(s)])

IsSorted(s) == \A i \in 1 .. Len(s) - 1 : sort_key_le(s[i], s[i + 1])

\* One pass with a "current cover" per family: a prefix is emitted unless the
\* cover of its family contains it; an emitted prefix becomes the cover.
RECURSIVE nested_pass(_, _, _)
nested_pass(s, cover, acc) ==
    IF s = <<>> THEN acc
    ELSE LET n == s[1]
             covered == /\ cover[n.version] # <<>>
                        /\ is_subnet_of(n, cover[n.version][1])
         IN  IF covered
             THEN nested_pass(Tail(s), cover, acc)
             ELSE nested_pass(Tail(s), [cover EXCEPT ![n.version] = <<n>>], Append(acc, n))

remove_nested(s, assume_sorted) ==
    nested_pass(IF assume_sorted THEN s ELSE sort_networks(s),
                [v \in {4, 6} |-> <<>>], <<>>)

\* Two children of a common parent one bit shorter.
parent(n) == ip_network(n.version, n.network_address, n.prefixlen - 1)

siblings(a, b) ==
    /\ a.version = b.version
    /\ a.prefixlen = b.prefixlen
    /\ a.prefixlen >= 1
    /\ a.network_address # b.network_address
    /\ parent(a) = parent(b)

\* While the top two entries of the stack are siblings, replace them by
\* their parent.
RECURSIVE merge_top(_)
merge_top(stack) ==
    IF Len(stack) >= 2 /\ siblings(stack[Len(stack) - 1], stack[Len(stack)])
    THEN merge_top(Append(SubSeq(stack, 1, Len(stack) - 2), parent(stack[Len(stack)])))
    ELSE stack

RECURSIVE aggregate_pass(_, _)
aggregate_pass(s, stack) ==
    IF s = <<>> THEN stack
    ELSE aggregate_pass(Tail(s), merge_top(Append(stack, s[1])))

aggregate(s) == aggregate_pass(s, <<>>)

\* ------------------------------------------------------------------ filter
\* Classification ranges of the scaled address space: the upper half of a
\* family is private, its third quarter link-local, its top quarter
\* multicast, the top eighth of v4 reserved, address 1 loopback, and a base
\* address of 0 unspecified.  A range needs as many bits as the family has.
Min(a, b) == IF a <= b THEN a ELSE b

top_block(v, bits) ==
    ip_network(v, Pow2(max_prefixlen(v)) - 1, Min(bits, max_prefixlen(v)))

in_range(n, block) == max_prefixlen(n.version) >= 1 /\ is_subnet_of(n, block)

is_private(n) == in_range(n, top_block(n.version, 1))
is_loopback(n) == in_range(n, ip_network(n.version, 1, max_prefixlen(n.version)))
is_link_local(n) ==
    in_range(n, ip_network(n.version, Pow2(max_prefixlen(n.version) - 1),
                           Min(2, max_prefixlen(n.version))))
is_multicast(n) == in_range(n, top_block(n.version, 2))
is_reserved(n) == n.version = 4 /\ in_range(n, top_block(4, 3))
is_unspecified(n) == n.network_address = 0

\* A prefix is excluded if any enabled predicate matches.
special_hit(n, f) ==
    \/ f.exclude_private /\ is_private(n)
    \/ f.exclude_loopback /\ is_loopback(n)
    \/ f.exclude_link_local /\ is_link_local(n)
    \/ f.exclude_multicast /\ is_multicast(n)
    \/ f.exclude_reserved /\ is_reserved(n)
    \/ f.exclude_unspecified /\ is_unspecified(n)

filter_special(s, f) ==
    LET keep(n) == ~special_hit(n, f)
    IN  SelectSeq(s, keep)

\* ---------------------------------------------------------------- pipeline
ExcludeFlags == {"exclude_private", "exclude_loopback", "exclude_link_local",
                 "exclude_multicast", "exclude_reserved", "exclude_unspecified"}

\* Keyword arguments of process_prefixes with their defaults.
DefaultFlags ==
    [sort |-> TRUE, remove_nested |-> TRUE, aggregate |-> TRUE,
     ipv4_only |-> FALSE, ipv6_only |-> FALSE,
     exclude_private |-> FALSE, exclude_loopback |-> FALSE,
     exclude_link_local |-> FALSE, exclude_multicast |-> FALSE,
     exclude_reserved |-> FALSE, exclude_unspecified |-> FALSE,
     bogons |-> FALSE]

\* Variant of filter_stage: the second version test is a plain else.
filter_stage_else(networks, f) ==
    LET is_v4(n) == n.version = 4
        is_v6(n) == n.version = 6
        by_version == IF f.ipv4_only THEN SelectSeq(networks, is_v4)
                      ELSE SelectSeq(networks, is_v6)
        ex == IF f.bogons
              THEN [k \in ExcludeFlags |-> TRUE]
              ELSE [k \in ExcludeFlags |-> f[k]]
    IN  IF \E k \in ExcludeFlags : ex[k]
        THEN filter_special(by_version, ex)
        ELSE by_version

\* Variant of filter_stage: bogons does not switch the six exclusions on.
filter_stage_no_bogons(networks, f) ==
    LET is_v4(n) == n.version = 4
        is_v6(n) == n.version = 6
        by_version == IF f.ipv4_only THEN SelectSeq(networks, is_v4)
                      ELSE IF f.ipv6_only THEN SelectSeq(networks, is_v6)
                      ELSE networks
        ex == [k \in ExcludeFlags |-> f[k]]
    IN  IF \E k \in ExcludeFlags : ex[k]
        THEN filter_special(by_version, ex)
        ELSE by_version

\* Stage 1 of process_prefixes: the lazy filters (version, then special).
filter_stage(networks, f) ==
    LET is_v4(n) == n.version = 4
        is_v6(n) == n.version = 6
        by_version == IF f.ipv4_only THEN SelectSeq(networks, is_v4)
                      ELSE IF f.ipv6_only THEN SelectSeq(networks, is_v6)
                      ELSE networks
        ex == IF f.bogons
              THEN [k \in ExcludeFlags |-> TRUE]
              ELSE [k \in ExcludeFlags |-> f[k]]
    IN  IF \E k \in ExcludeFlags : ex[k]
        THEN filter_special(by_version, ex)
        ELSE by_version

\* Variant of heavy_stage: aggregate runs before remove_nested.
heavy_stage_swapped(data, f) ==
    LET sorted == IF f.sort THEN sort_networks(data) ELSE data
        merged == IF f.aggregate
                  THEN aggregate(IF f.sort THEN sorted ELSE sort_networks(sorted))
                  ELSE sorted
    IN  IF f.remove_nested
        THEN remove_nested(merged, f.sort \/ f.aggregate)
        ELSE merged

\* One call of a step of stage 2: the step, the data it is handed and, for
\* remove_nested, the assume_sorted argument.
Call(step, data, assume_sorted) ==
    [step |-> step, data |-> data, assume_sorted |-> assume_sorted]

\* Variant of heavy_trace: remove_nested is always told its input is sorted.
heavy_trace_assume(data, f) ==
    LET sorted == IF f.sort THEN sort_networks(data) ELSE data
        calls_1 == IF f.sort THEN <<Call("sort", data, FALSE)>> ELSE <<>>
        flat == IF f.remove_nested THEN remove_nested(sorted, TRUE) ELSE sorted
        calls_2 == IF f.remove_nested
                   THEN Append(calls_1, Call("remove_nested", sorted, TRUE))
                   ELSE calls_1
        is_sorted_2 == f.sort \/ f.remove_nested
        resorted == IF is_sorted_2 THEN flat ELSE sort_networks(flat)
        calls_3 == IF is_sorted_2 THEN calls_2
                   ELSE Append(calls_2, Call("sort", flat, FALSE))
    IN  IF f.aggregate
        THEN [data |-> aggregate(resorted),
              calls |-> Append(calls_3, Call("aggregate", resorted, FALSE))]
        ELSE [data |-> flat, calls |-> calls_2]

\* Stage 2 of process_prefixes: sort, remove nested, aggregate (lines
\* 101-128).  data is what is returned, calls the steps in the order they
\* ran; is_sorted_1 and is_sorted_2 are is_sorted_broadest after the sort
\* and after the remove_nested step.
heavy_trace(data, f) ==
    LET sorted == IF f.sort THEN sort_networks(data) ELSE data
        calls_1 == IF f.sort THEN <<Call("sort", data, FALSE)>> ELSE <<>>
        is_sorted_1 == f.sort
        flat == IF f.remove_nested THEN remove_nested(sorted, is_sorted_1) ELSE sorted
        calls_2 == IF f.remove_nested
                   THEN Append(calls_1, Call("remove_nested", sorted, is_sorted_1))
                   ELSE calls_1
        is_sorted_2 == is_sorted_1 \/ f.remove_nested
        resorted == IF is_sorted_2 THEN flat ELSE sort_networks(flat)
        calls_3 == IF is_sorted_2 THEN calls_2
                   ELSE Append(calls_2, Call("sort", flat, FALSE))
    IN  IF f.aggregate
        THEN [data |-> aggregate(resorted),
              calls |-> Append(calls_3, Call("aggregate", resorted, FALSE))]
        ELSE [data |-> flat, calls |-> calls_2]

heavy_stage(data, f) == heavy_trace(data, f).data

\* Variant of process_prefixes: the filters run on the output of stage 2.
process_prefixes_filter_last(networks, f) == filter_stage(heavy_stage(networks, f), f)

process_prefixes(networks, f) == heavy_stage(filter_stage(networks, f), f)

FullFlags == DefaultFlags

\* -------------------------------------------------------------- subtractor
Ok(v) == [status |-> "ok", value |-> v]
Raised(msg) == [status |-> "error", value |-> msg]

\* excludes_list after lines 49-52: sorted, nested-free, aggregated.
prepare_excludes(excludes) ==
    aggregate(remove_nested(sort_networks(excludes), TRUE))

\* Variant of skip_excludes: an exclude that ends exactly on the first address
\* of the source is skipped too (<= for <).
RECURSIVE skip_excludes_le(_, _, _)
skip_excludes_le(E, exclude_idx, source) ==
    IF exclude_idx >= Len(E) THEN exclude_idx
    ELSE LET curr_exc == E[exclude_idx + 1]
         IN  IF curr_exc.version < source.version
             THEN skip_excludes_le(E, exclude_idx + 1, source)
             ELSE IF curr_exc.version > source.version
             THEN exclude_idx
             ELSE IF broadcast_address(curr_exc) <= source.network_address
             THEN skip_excludes_le(E, exclude_idx + 1, source)
             ELSE exclude_idx

\* Variant of skip_excludes: an exclude of a higher family is skipped as well.
RECURSIVE skip_excludes_family(_, _, _)
skip_excludes_family(E, exclude_idx, source) ==
    IF exclude_idx >= Len(E) THEN exclude_idx
    ELSE LET curr_exc == E[exclude_idx + 1]
         IN  IF curr_exc.version # source.version
             THEN skip_excludes_family(E, exclude_idx + 1, source)
             ELSE IF broadcast_address(curr_exc) < source.network_address
             THEN skip_excludes_family(E, exclude_idx + 1, source)
             ELSE exclude_idx

\* Step A: move the cursor past the excludes that lie wholly to the left of
\* the source (lower family, or end before the start of the source).
\* Indexes are 0-based as in the code: excludes_list[i] is E[i + 1].
RECURSIVE skip_excludes(_, _, _)
skip_excludes(E, exclude_idx, source) ==
    IF exclude_idx >= Len(E) THEN exclude_idx
    ELSE LET curr_exc == E[exclude_idx + 1]
         IN  IF curr_exc.version < source.version
             THEN skip_excludes(E, exclude_idx + 1, source)
             ELSE IF curr_exc.version > source.version
             THEN exclude_idx
             ELSE IF broadcast_address(curr_exc) < source.network_address
             THEN skip_excludes(E, exclude_idx + 1, source)
             ELSE exclude_idx

\* Variant of cut_fragments: a fragment that holds the exclude is kept whole.
RECURSIVE cut_fragments_keep(_, _)
cut_fragments_keep(current_fragments, exc) ==
    IF current_fragments = <<>> THEN <<>>
    ELSE LET frag == current_fragments[1]
             rest == cut_fragments_keep(Tail(current_fragments), exc)
         IN  IF ~overlaps(frag, exc) THEN <<frag>> \o rest
             ELSE IF is_subnet_of(frag, exc) THEN rest
             ELSE IF is_subnet_of(exc, frag) THEN <<frag>> \o rest
             ELSE rest

\* The inner for loop: one exclude applied to every current fragment.
RECURSIVE cut_fragments(_, _)
cut_fragments(current_fragments, exc) ==
    IF current_fragments = <<>> THEN <<>>
    ELSE LET frag == current_fragments[1]
             rest == cut_fragments(Tail(current_fragments), exc)
         IN  IF ~overlaps(frag, exc) THEN <<frag>> \o rest
             ELSE IF is_subnet_of(frag, exc) THEN rest
             ELSE IF is_subnet_of(exc, frag) THEN address_exclude(frag, exc) \o rest
             ELSE rest

\* Variant of punch_trace: the walk does not stop at an exclude of a higher
\* family.
RECURSIVE punch_trace_no_family(_, _, _, _)
punch_trace_no_family(E, local_idx, source, current_fragments) ==
    IF local_idx >= Len(E) THEN [fragments |-> current_fragments, compared |-> <<>>]
    ELSE LET exc == E[local_idx + 1]
         IN  IF /\ exc.version = source.version
                /\ exc.network_address > broadcast_address(source)
             THEN [fragments |-> current_fragments, compared |-> <<>>]
             ELSE LET next_pass_fragments == cut_fragments(current_fragments, exc)
                      rest == punch_trace_no_family(E, local_idx + 1, source, next_pass_fragments)
                  IN  IF next_pass_fragments = <<>>
                      THEN [fragments |-> <<>>, compared |-> <<exc>>]
                      ELSE [fragments |-> rest.fragments,
                            compared |-> <<exc>> \o rest.compared]

\* Step B: walk the excludes from the cursor until one starts after the end
\* of the source (or belongs to a higher family), or nothing is left.
\* fragments is current_fragments at the end of the walk, compared the
\* excludes that reached the overlap test of line 119, in order.
RECURSIVE punch_trace(_, _, _, _)
punch_trace(E, local_idx, source, current_fragments) ==
    IF local_idx >= Len(E) THEN [fragments |-> current_fragments, compared |-> <<>>]
    ELSE LET exc == E[local_idx + 1]
         IN  IF exc.version > source.version
             THEN [fragments |-> current_fragments, compared |-> <<>>]
             ELSE IF /\ exc.version = source.version
                     /\ exc.network_address > broadcast_address(source)
             THEN [fragments |-> current_fragments, compared |-> <<>>]
             ELSE LET next_pass_fragments == cut_fragments(current_fragments, exc)
                      rest == punch_trace(E, local_idx + 1, source, next_pass_fragments)
                  IN  IF next_pass_fragments = <<>>
                      THEN [fragments |-> <<>>, compared |-> <<exc>>]
                      ELSE [fragments |-> rest.fragments,
                            compared |-> <<exc>> \o rest.compared]

punch_holes(E, local_idx, source, current_fragments) ==
    punch_trace(E, local_idx, source, current_fragments).fragments

\* The fuse test of line 150.
fuse_blown(final_results) == Len(final_results) > MAX_OUTPUT_FRAGMENTS

\* One iteration of the for loop over sources_list.
source_step(E, st, source) ==
    LET idx == skip_excludes(E, st.exclude_idx, source)
        frags == punch_holes(E, idx, source, <<source>>)
        final == st.final_results \o frags
    IN  [exclude_idx |-> idx, final_results |-> final, raised |-> fuse_blown(final)]

RECURSIVE subtract_loop(_, _, _, _)
subtract_loop(sources_list, i, E, st) ==
    IF i > Len(sources_list) THEN Ok(st.final_results)
    ELSE LET nxt == source_step(E, st, sources_list[i])
         IN  IF nxt.raised THEN Raised("too many fragments")
             ELSE subtract_loop(sources_list, i + 1, E, nxt)

subtract_networks(sources, excludes) ==
    IF excludes = <<>> THEN Ok(sources)
    ELSE subtract_loop(sort_networks(sources), 1, prepare_excludes(excludes),
                       [exclude_idx |-> 0, final_results |-> <<>>, raised |-> FALSE])

\* --------------------------------------------------------------------- api
\* All the orders in which the elements of a set can be enumerated.
Orders(S) == { s \in [1 .. Cardinality(S) -> S] : Range(s) = S }

\* list(a_set): one enumeration of the set.
SetToList(S) == CHOOSE s \in Orders(S) : TRUE

\* load() of a list of IPNet objects yields the items as they are.
load(source) == source

\* Keyword arguments of api.optimize with their defaults.
DefaultOptimize ==
    [ipv4_only |-> FALSE, ipv6_only |-> FALSE, remove_nested |-> TRUE,
     aggregate |-> TRUE, bogons |-> FALSE]

\* The flags api.optimize hands to process_prefixes.
optimize_flags(o) ==
    [DefaultFlags EXCEPT !.sort = TRUE,
                         !.remove_nested = o.remove_nested,
                         !.aggregate = o.aggregate,
                         !.ipv4_only = o.ipv4_only,
                         !.ipv6_only = o.ipv6_only,
                         !.bogons = o.bogons]

optimize(source, o) == process_prefixes(load(source), optimize_flags(o))

\* add without keep_comments; net is the normalized new prefix.
add(source, net) ==
    LET data_list == load(source)
    IN  optimize(IF net \in Range(data_list) THEN data_list ELSE Append(data_list, net),
                 DefaultOptimize)

\* merge without keep_comments.
merge(src1, src2) == process_prefixes(load(src1) \o load(src2), FullFlags)

\* The nested overlap scan of intersect: list_a and list_b are the orders in
\* which the two sets happen to be enumerated.
\* Variant of scan_inner: a pair counts only when net1 lies within net2.
RECURSIVE scan_inner_within(_, _, _, _)
scan_inner_within(net1, list_b, j, common) ==
    IF j > Len(list_b) THEN common
    ELSE LET net2 == list_b[j]
         IN  IF net1 \in common \/ net2 \in common
             THEN scan_inner_within(net1, list_b, j + 1, common)
             ELSE IF is_subnet_of(net1, net2) /\ net1.version = net2.version
             THEN scan_inner_within(net1, list_b, j + 1, common \cup {net1, net2})
             ELSE scan_inner_within(net1, list_b, j + 1, common)

RECURSIVE scan_inner(_, _, _, _)
scan_inner(net1, list_b, j, common) ==
    IF j > Len(list_b) THEN common
    ELSE LET net2 == list_b[j]
         IN  IF net1 \in common \/ net2 \in common
             THEN scan_inner(net1, list_b, j + 1, common)
             ELSE IF overlaps(net1, net2) /\ net1.version = net2.version
             THEN scan_inner(net1, list_b, j + 1, common \cup {net1, net2})
             ELSE scan_inner(net1, list_b, j + 1, common)

RECURSIVE scan_outer(_, _, _, _)
scan_outer(list_a, i, list_b, common) ==
    IF i > Len(list_a) THEN common
    ELSE scan_outer(list_a, i + 1, list_b, scan_inner(list_a[i], list_b, 1, common))

intersect(list_a, list_b) ==
    LET set_a == Range(list_a)
        set_b == Range(list_b)
        common == scan_outer(list_a, 1, list_b, set_a \cap set_b)
    IN  optimize(SetToList(common), DefaultOptimize)

\* Variant of exclude: the raw fragments are returned without the final
\* canonicalization.
exclude_raw(source, tgt) == subtract_networks(load(source), load(tgt))

exclude(source, tgt) ==
    LET raw_result == subtract_networks(load(source), load(tgt))
    IN  IF raw_result.status = "error" THEN raw_result
        ELSE Ok(process_prefixes(raw_result.value, FullFlags))

\* core.operations.diff.calculate_diff: set difference both ways and the
\* common prefixes, on the two canonical lists.
calculate_diff(new_list, old_list) ==
    [added |-> Range(new_list) \ Range(old_list),
     removed |-> Range(old_list) \ Range(new_list),
     unchanged |-> Range(new_list) \cap Range(old_list)]

SortOnlyFlags == [DefaultFlags EXCEPT !.remove_nested = FALSE, !.aggregate = FALSE]

\* Variant of diff: the two lists are prepared without aggregation.
diff_no_aggregate(new_source, old_source) ==
    LET prep == [DefaultFlags EXCEPT !.aggregate = FALSE]
        new_list == process_prefixes(load(new_source), prep)
        old_list == process_prefixes(load(old_source), prep)
        d == calculate_diff(new_list, old_list)
        to_sorted_list(data_set) == process_prefixes(SetToList(data_set), SortOnlyFlags)
    IN  [added |-> to_sorted_list(d.added),
         removed |-> to_sorted_list(d.removed),
         unchanged |-> to_sorted_list(d.unchanged)]

\* Variant of diff: calculate_diff gets the two lists in the wrong order.
diff_swapped(new_source, old_source) ==
    LET new_list == process_prefixes(load(new_source), FullFlags)
        old_list == process_prefixes(load(old_source), FullFlags)
        d == calculate_diff(old_list, new_list)
        to_sorted_list(data_set) == process_prefixes(SetToList(data_set), SortOnlyFlags)
    IN  [added |-> to_sorted_list(d.added),
         removed |-> to_sorted_list(d.removed),
         unchanged |-> to_sorted_list(d.unchanged)]

diff(new_source, old_source) ==
    LET new_list == process_prefixes(load(new_source), FullFlags)
        old_list == process_prefixes(load(old_source), FullFlags)
        d == calculate_diff(new_list, old_list)
        to_sorted_list(data_set) == process_prefixes(SetToList(data_set), SortOnlyFlags)
    IN  [added |-> to_sorted_list(d.added),
         removed |-> to_sorted_list(d.removed),
         unchanged |-> to_sorted_list(d.unchanged)]

\* ------------------------------------------------------------------ inputs
\* Every list of at most n prefixes: duplicates, nested prefixes, both
\* families, any order.
Inputs(n) == UNION { [1 .. k -> IPNet] : k \in 0 .. n }

NoResult == [status |-> "none", value |-> <<>>]

\* subtract_networks is not running.
SubIdle == [pc |-> "idle", sources_list |-> <<>>, excludes_list |-> <<>>,
            i |-> 0, exclude_idx |-> 0, final_results |-> <<>>]

\* ------------------------------------------------------ splitter and check
\* Default of the max_subnets parameter of split_network, scaled with the
\* address space.
DEFAULT_MAX_SUBNETS == 2

\* The subnets of length new_prefix of net, ascending.
subnets(net, new_prefix) ==
    LET size == Pow2(max_prefixlen(net.version) - new_prefix)
    IN  [k \in 1 .. Pow2(new_prefix - net.prefixlen) |->
            [version |-> net.version,
             network_address |-> net.network_address + (k - 1) * size,
             prefixlen |-> new_prefix]]

\* split_network(net, new_prefix, max_subnets): the errors come before any
\* subnet is made.
split_network(net, new_prefix, max_subnets) ==
    IF new_prefix < net.prefixlen
    THEN Raised("target length must be >= source length")
    ELSE IF new_prefix > max_prefixlen(net.version)
    THEN Raised("invalid prefix length")
    ELSE IF Pow2(new_prefix - net.prefixlen) > max_subnets
    THEN Raised("exceeds the maximum")
    ELSE Ok(subnets(net, new_prefix))

\* A prefix argument as written: address/len, host bits possibly set.
Targets ==
    UNION { [version : {v}, address : 0 .. Pow2(max_prefixlen(v)) - 1,
             prefixlen : 0 .. max_prefixlen(v)] : v \in {4, 6} }

\* normalize_prefix(text): the network of address/len, host bits cleared.
normalize_prefix(t) == ip_network(t.version, t.address, t.prefixlen)

\* Variant of split: the target is split as written, host bits included.
split_raw(tgt, length) ==
    split_network([version |-> tgt.version, network_address |-> tgt.address,
                   prefixlen |-> tgt.prefixlen], length, DEFAULT_MAX_SUBNETS)

\* api.split(target, length).
split(tgt, length) ==
    split_network(normalize_prefix(tgt), length, DEFAULT_MAX_SUBNETS)

\* What a CLI verb leaves behind: its exit code and the prefixes it wrote.
Exit(code, written) ==
    [status |-> "exit", value |-> [exit_code |-> code, written |-> written]]

\* The loop of cli split over the prefixes read (lines 65-67): result grows
\* until a split raises.
RECURSIVE split_each(_, _, _, _)
split_each(prefixes, k, target_length, acc) ==
    IF k > Len(prefixes) THEN Ok(acc)
    ELSE LET made == split_network(prefixes[k], target_length, DEFAULT_MAX_SUBNETS)
         IN  IF made.status = "error" THEN made
             ELSE split_each(prefixes, k + 1, target_length, acc \o made.value)

\* Variant of cli_split: the subnets made before the failure are written.
RECURSIVE written_before(_, _, _)
written_before(prefixes, k, target_length) ==
    IF k > Len(prefixes) THEN <<>>
    ELSE LET made == split_network(prefixes[k], target_length, DEFAULT_MAX_SUBNETS)
         IN  IF made.status = "error" THEN <<>>
             ELSE made.value \o written_before(prefixes, k + 1, target_length)

cli_split_partial(target_length, prefixes) ==
    LET all == split_each(prefixes, 1, target_length, <<>>)
    IN  IF all.status = "error"
        THEN Exit(1, written_before(prefixes, 1, target_length))
        ELSE Exit(0, all.value)

\* cli split over a file or stdin: handle_output runs after the loop; an
\* exception prints the error and exits with code 1.
cli_split(target_length, prefixes) ==
    LET all == split_each(prefixes, 1, target_length, <<>>)
    IN  IF all.status = "error" THEN Exit(1, <<>>) ELSE Exit(0, all.value)

\* A check target as written: a prefix of Targets, or a bare address
\* [version, address].
CheckTargets ==
    Targets \cup UNION { [version : {v}, address : 0 .. Pow2(max_prefixlen(v)) - 1] : v \in {4, 6} }

is_bare(tgt) == "prefixlen" \notin DOMAIN tgt

\* A target argument that is neither an address nor a prefix.
NotAnIP == [text |-> "NotAnIP"]

parsable(tgt) == "version" \in DOMAIN tgt

\* The target arguments of exclude, check and add.
TargetArgs == CheckTargets \cup {NotAnIP}

\* ipaddress.ip_network(target, strict=False): a bare address is the
\* network of that one address.
check_network(tgt) ==
    IF is_bare(tgt)
    THEN ip_network(tgt.version, tgt.address, max_prefixlen(tgt.version))
    ELSE ip_network(tgt.version, tgt.address, tgt.prefixlen)

\* Variant of check: the containment test is turned around.
check_reversed(tgt, source) ==
    LET check_item == check_network(tgt)
        containing(net) == /\ net.version = check_item.version
                           /\ is_subnet_of(net, check_item)
    IN  SelectSeq(load(source), containing)

\* api.check(target, source): a target that neither ip_network nor
\* ip_address accepts returns the empty list (lines 409-415); ip_network
\* accepts every other target, so the loop always takes the is_subnet_of
\* branch.
check(tgt, source) ==
    IF ~parsable(tgt) THEN <<>>
    ELSE LET check_item == check_network(tgt)
             containing(net) == /\ net.version = check_item.version
                                /\ is_subnet_of(check_item, net)
         IN  SelectSeq(load(source), containing)

\* cli check: a target without '/' is an address and is tested with
\* "check_item in net", a target with '/' with subnet_of.
cli_check(ip_or_prefix, prefixes) ==
    LET containing(net) ==
            /\ net.version = ip_or_prefix.version
            /\ IF is_bare(ip_or_prefix)
               THEN Contains(net, ip_or_prefix.version, ip_or_prefix.address)
               ELSE is_subnet_of(check_network(ip_or_prefix), net)
    IN  IF ~parsable(ip_or_prefix) THEN Exit(1, <<>>)
        ELSE Exit(0, SelectSeq(prefixes, containing))

\* normalize_prefix on an argument as typed: the network of a prefix or of
\* a bare address, ValueError for a text that is neither.
try_normalize_prefix(t) ==
    IF parsable(t) THEN Ok(check_network(t)) ELSE Raised("ValueError")

\* load of a string that names no file: the prefixes extracted from the
\* text, none for a text that holds no address.
load_text(t) ==
    IF parsable(t) THEN <<check_network(t)>> ELSE <<>>

\* api.add(source, new_prefix): normalize_prefix runs first and its
\* ValueError leaves the call.
api_add(source, new_prefix) ==
    LET net == try_normalize_prefix(new_prefix)
    IN  IF net.status = "error" THEN net ELSE Ok(add(source, net.value))

\* cli add without --keep-comments.
cli_add(new_prefix, prefixes) ==
    LET network_to_add == try_normalize_prefix(new_prefix)
    IN  IF network_to_add.status = "error" THEN Exit(1, <<>>)
        ELSE Exit(0, process_prefixes(
                 IF network_to_add.value \in Range(prefixes) THEN prefixes
                 ELSE Append(prefixes, network_to_add.value), FullFlags))

\* cli exclude with a target that is not an existing file: the target is
\* the one exclude, or the verb exits with code 1 before the input is read.
cli_exclude(tgt, source_prefixes) ==
    LET net == try_normalize_prefix(tgt)
        raw_result == subtract_networks(source_prefixes, <<net.value>>)
    IN  IF net.status = "error" THEN Exit(1, <<>>)
        ELSE IF raw_result.status = "error" THEN Exit(1, <<>>)
        ELSE Exit(0, process_prefixes(raw_result.value, FullFlags))

\* ----------------------------------------- operations of the API (api.py)
Init ==
    /\ source_a \in Inputs(MaxA)
    /\ source_b \in Inputs(MaxB)
    /\ target = <<>>
    /\ flags = DefaultFlags
    /\ op = "none"
    /\ result = NoResult
    /\ sub = SubIdle

Exclude ==
    /\ op = "none"
    /\ op' = "exclude"
    /\ result' = exclude(source_a, source_b)
    /\ UNCHANGED <<source_a, source_b, target, flags, sub>>

Merge ==
    /\ op = "none"
    /\ op' = "merge"
    /\ result' = Ok(merge(source_a, source_b))
    /\ UNCHANGED <<source_a, source_b, target, flags, sub>>

Intersect ==
    /\ op = "none"
    /\ \E list_a \in Orders(Range(load(source_a))), list_b \in Orders(Range(load(source_b))) :
          result' = Ok(intersect(list_a, list_b))
    /\ op' = "intersect"
    /\ UNCHANGED <<source_a, source_b, target, flags, sub>>

Diff ==
    /\ op = "none"
    /\ op' = "diff"
    /\ result' = Ok(diff(source_a, source_b))
    /\ UNCHANGED <<source_a, source_b, target, flags, sub>>

\* optimize and add take one source: they run where no second input is given.
Optimize(o) ==
    /\ op = "none"
    /\ source_b = <<>>
    /\ op' = "optimize"
    /\ flags' = optimize_flags(o)
    /\ result' = Ok(optimize(source_a, o))
    /\ UNCHANGED <<source_a, source_b, target, sub>>

Add(net) ==
    /\ op = "none"
    /\ source_b = <<>>
    /\ op' = "add"
    /\ target' = <<net>>
    /\ result' = Ok(add(source_a, net))
    /\ UNCHANGED <<source_a, source_b, flags, sub>>

Next ==
    \/ Exclude
    \/ Merge
    \/ Diff
    \/ Optimize(DefaultOptimize)
    \/ \E net \in IPNet : Add(net)

Spec == Init /\ [][Next]_vars

\* intersect alone: every enumeration order of the two sets is a behaviour.
NextIntersect == Intersect

SpecIntersect == Init /\ [][NextIntersect]_vars

\* ------------------------------------------ the pipeline (core/pipeline.py)
\* Flag combinations of process_prefixes exercised here.
PipeFlags ==
    { [DefaultFlags EXCEPT !.sort = c[1], !.remove_nested = c[2], !.aggregate = c[3],
                           !.ipv4_only = c[4], !.ipv6_only = c[5], !.bogons = c[6]]
      : c \in [1 .. 6 -> BOOLEAN] }

OptimizeArgs ==
    [ipv4_only : BOOLEAN, ipv6_only : BOOLEAN, remove_nested : BOOLEAN,
     aggregate : BOOLEAN, bogons : BOOLEAN]

InitPipe ==
    /\ source_a \in Inputs(MaxS)
    /\ source_b = <<>>
    /\ target = <<>>
    /\ flags = DefaultFlags
    /\ op = "none"
    /\ result = NoResult
    /\ sub = SubIdle

ProcessPrefixes ==
    /\ op = "none"
    /\ \E f \in PipeFlags :
          /\ flags' = f
          /\ result' = Ok(process_prefixes(source_a, f))
    /\ op' = "process_prefixes"
    /\ UNCHANGED <<source_a, source_b, target, sub>>

NextPipe ==
    \/ ProcessPrefixes
    \/ \E o \in OptimizeArgs : Optimize(o)

SpecPipe == InitPipe /\ [][NextPipe]_vars

\* ------------------------- subtract_networks, one source per step
InitSub ==
    /\ \/ source_a \in Inputs(MaxA) /\ source_b \in Inputs(MaxB)
       \/ source_a \in Inputs(MaxFuseA) /\ source_b \in Inputs(MaxFuseB)
    /\ target = <<>>
    /\ flags = DefaultFlags
    /\ op = "none"
    /\ result = NoResult
    /\ sub = SubIdle

\* Variant of SubStart: the early return hands back the sorted sources.
SubStartSorted ==
    /\ sub.pc = "idle"
    /\ op = "none"
    /\ op' = "subtract_networks"
    /\ IF source_b = <<>>
       THEN /\ result' = Ok(sort_networks(source_a))
            /\ sub' = [sub EXCEPT !.pc = "done"]
       ELSE /\ sub' = [pc |-> "loop",
                       sources_list |-> sort_networks(source_a),
                       excludes_list |-> prepare_excludes(source_b),
                       i |-> 1, exclude_idx |-> 0, final_results |-> <<>>]
            /\ UNCHANGED result
    /\ UNCHANGED <<source_a, source_b, target, flags>>

\* Lines 45-62: the early return on an empty exclude list, else the
\* preparation of both lists and of the cursor.
SubStart ==
    /\ sub.pc = "idle"
    /\ op = "none"
    /\ op' = "subtract_networks"
    /\ IF source_b = <<>>
       THEN /\ result' = Ok(source_a)
            /\ sub' = [sub EXCEPT !.pc = "done"]
       ELSE /\ sub' = [pc |-> "loop",
                       sources_list |-> sort_networks(source_a),
                       excludes_list |-> prepare_excludes(source_b),
                       i |-> 1, exclude_idx |-> 0, final_results |-> <<>>]
            /\ UNCHANGED result
    /\ UNCHANGED <<source_a, source_b, target, flags>>

\* Lines 64-154: one source; the fuse is tested after its fragments are added.
SubSource ==
    /\ sub.pc = "loop"
    /\ sub.i <= Len(sub.sources_list)
    /\ LET nxt == source_step(sub.excludes_list,
                              [exclude_idx |-> sub.exclude_idx,
                               final_results |-> sub.final_results],
                              sub.sources_list[sub.i])
       IN  IF nxt.raised
           THEN /\ result' = Raised("too many fragments")
                /\ sub' = [sub EXCEPT !.pc = "done",
                                      !.exclude_idx = nxt.exclude_idx,
                                      !.final_results = nxt.final_results]
           ELSE /\ sub' = [sub EXCEPT !.i = sub.i + 1,
                                      !.exclude_idx = nxt.exclude_idx,
                                      !.final_results = nxt.final_results]
                /\ UNCHANGED result
    /\ UNCHANGED <<source_a, source_b, target, flags, op>>

\* Line 156: every source is done.
SubReturn ==
    /\ sub.pc = "loop"
    /\ sub.i > Len(sub.sources_list)
    /\ result' = Ok(sub.final_results)
    /\ sub' = [sub EXCEPT !.pc = "done"]
    /\ UNCHANGED <<source_a, source_b, target, flags, op>>

NextSub == SubStart \/ SubSource \/ SubReturn

SpecSub == InitSub /\ [][NextSub]_vars

\* ------------------------- annotated prefixes: the keep-comments workflows
\* Line limit of the readers.  The program sets 8_000_000; the model keeps
\* the comparison and scales the number so that the limit can be reached.
MAX_LINE_COUNT == 2

\* Comment texts after the '#' of a line is trimmed and prefixed with "# ".
Comments == {"", "# a", "# b"}

\* Prefixes written in annotated files: a parent, its two halves and one v6
\* prefix.
AnnotNets ==
    { ip_network(4, 0, 0), lower_half(ip_network(4, 0, 0)),
      upper_half(ip_network(4, 0, 0)), ip_network(6, 0, 0) }

\* A line of an annotated file: the prefixes found left of the first '#'
\* and the comment right of it.
AnnotLines == [content : {<<>>} \cup { <<n>> : n \in AnnotNets }, comment : Comments]

\* Every annotated file of at most n lines.
AnnotFiles(n) == UNION { [1 .. k -> AnnotLines] : k \in 0 .. n }

RECURSIVE line_pairs(_, _, _)
line_pairs(prefixes, comment, k) ==
    IF k > Len(prefixes) THEN <<>>
    ELSE <<<<prefixes[k], comment>>>> \o line_pairs(prefixes, comment, k + 1)

RECURSIVE file_pairs(_, _)
file_pairs(file, line_num) ==
    IF line_num > Len(file) THEN <<>>
    ELSE line_pairs(file[line_num].content, file[line_num].comment, 1)
            \o file_pairs(file, line_num + 1)

\* read_prefixes_with_comments, consumed to its end: the (prefix, comment)
\* pairs in line order, or the limit error raised on line MAX_LINE_COUNT + 1.
read_prefixes_with_comments(file) ==
    IF Len(file) > MAX_LINE_COUNT
    THEN Raised("line limit")
    ELSE Ok(file_pairs(file, 1))

in_map(unique_map, ip) == \E k \in DOMAIN unique_map : unique_map[k][1] = ip

\* The dedup rule on one pair.  unique_map is the dict in insertion order;
\* its key str(ip) names the network ip itself.
map_put(unique_map, ip, comment) ==
    IF ~in_map(unique_map, ip)
    THEN Append(unique_map, <<ip, comment>>)
    ELSE [k \in DOMAIN unique_map |->
            IF unique_map[k][1] = ip /\ unique_map[k][2] = "" /\ comment # ""
            THEN <<ip, comment>>
            ELSE unique_map[k]]

\* The dedup loop over a stream of pairs.
RECURSIVE process_stream(_, _, _)
process_stream(stream, k, unique_map) ==
    IF k > Len(stream) THEN unique_map
    ELSE process_stream(stream, k + 1, map_put(unique_map, stream[k][1], stream[k][2]))

\* The sort key of an annotated pair: (version, network_address, prefixlen).
annot_key_le(x, y) ==
    \/ x[1].version < y[1].version
    \/ /\ x[1].version = y[1].version
       /\ \/ x[1].network_address < y[1].network_address
          \/ /\ x[1].network_address = y[1].network_address
             /\ x[1].prefixlen <= y[1].prefixlen

RECURSIVE annot_insert(_, _)
annot_insert(s, x) ==
    IF s = <<>> THEN <<x>>
    ELSE IF annot_key_le(s[Len(s)], x) THEN Append(s, x)
    ELSE Append(annot_insert(SubSeq(s, 1, Len(s) - 1), x), s[Len(s)])

\* list.sort(key=...): stable, ascending.
RECURSIVE annot_sort(_)
annot_sort(s) ==
    IF s = <<>> THEN <<>>
    ELSE annot_insert(annot_sort(SubSeq(s, 1, Len(s) - 1)), s[Len(s)])

\* Variant of optimize_with_comments: the pairs stay in insertion order.
optimize_with_comments_unsorted(source) ==
    LET data_iter == read_prefixes_with_comments(source)
    IN  IF data_iter.status = "error" THEN data_iter
        ELSE Ok(process_stream(data_iter.value, 1, <<>>))

\* api._optimize_with_comments on a file: read, dedup, sort.
optimize_with_comments(source) ==
    LET data_iter == read_prefixes_with_comments(source)
    IN  IF data_iter.status = "error" THEN data_iter
        ELSE Ok(annot_sort(process_stream(data_iter.value, 1, <<>>)))

\* api.merge(src1, src2, keep_comments=True).
merge_keep_comments(src1, src2) ==
    LET d1 == optimize_with_comments(src1)
        d2 == optimize_with_comments(src2)
    IN  IF d1.status = "error" THEN d1
        ELSE IF d2.status = "error" THEN d2
        ELSE Ok(annot_sort(process_stream(d1.value \o d2.value, 1, <<>>)))

\* api.add(source, new_prefix, keep_comments=True).
add_keep_comments(source, net) ==
    LET data == optimize_with_comments(source)
    IN  IF data.status = "error" THEN data
        ELSE IF \E k \in DOMAIN data.value : data.value[k][1] = net
        THEN data
        ELSE Ok(annot_sort(Append(data.value, <<net, "# Added">>)))

\* cli optimize --keep-comments: both version flags filter, then dedup, sort.
cli_optimize_keep_comments(input_file, ipv4_only, ipv6_only) ==
    LET stream == read_prefixes_with_comments(input_file)
        kept(pair) == /\ ~(ipv4_only /\ pair[1].version # 4)
                      /\ ~(ipv6_only /\ pair[1].version # 6)
    IN  IF stream.status = "error" THEN Raised("exit 1")
        ELSE Ok(annot_sort(process_stream(SelectSeq(stream.value, kept), 1, <<>>)))

\* cli merge --keep-comments: both files go through one dict.
cli_merge_keep_comments(file1, file2) ==
    LET s1 == read_prefixes_with_comments(file1)
        s2 == read_prefixes_with_comments(file2)
    IN  IF s1.status = "error" \/ s2.status = "error" THEN Raised("exit 1")
        ELSE Ok(annot_sort(process_stream(s2.value, 1, process_stream(s1.value, 1, <<>>))))

\* The reading loop of cli add --keep-comments: unique_map[str(net)] = comment.
RECURSIVE cli_add_read(_, _, _)
cli_add_read(stream, k, unique_map) ==
    IF k > Len(stream) THEN unique_map
    ELSE LET ip == stream[k][1]
             comment == stream[k][2]
             put == IF in_map(unique_map, ip)
                    THEN [j \in DOMAIN unique_map |->
                            IF unique_map[j][1] = ip THEN <<ip, comment>> ELSE unique_map[j]]
                    ELSE Append(unique_map, <<ip, comment>>)
         IN  cli_add_read(stream, k + 1, put)

\* cli add --keep-comments.
cli_add_keep_comments(input_file, network_to_add) ==
    LET stream == read_prefixes_with_comments(input_file)
    IN  IF stream.status = "error" THEN Raised("exit 1")
        ELSE LET unique_map == cli_add_read(stream.value, 1, <<>>)
                 added == IF in_map(unique_map, network_to_add)
                          THEN unique_map
                          ELSE Append(unique_map, <<network_to_add, "# Added manually">>)
             IN  Ok(annot_sort(added))

\* ------------------------------------ the keep-comments workflows as actions
InitAnnot ==
    /\ \/ source_a \in AnnotFiles(MAX_LINE_COUNT) /\ source_b \in AnnotFiles(MAX_LINE_COUNT)
       \/ source_a \in AnnotFiles(MAX_LINE_COUNT + 1) /\ source_b = <<>>
    /\ target = <<>>
    /\ flags = DefaultFlags
    /\ op = "none"
    /\ result = NoResult
    /\ sub = SubIdle

ApiOptimizeKeep ==
    /\ op = "none"
    /\ source_b = <<>>
    /\ op' = "api_optimize_keep"
    /\ result' = optimize_with_comments(source_a)
    /\ UNCHANGED <<source_a, source_b, target, flags, sub>>

CliOptimizeKeep ==
    /\ op = "none"
    /\ source_b = <<>>
    /\ op' = "cli_optimize_keep"
    /\ \E v4 \in BOOLEAN, v6 \in BOOLEAN :
          /\ flags' = [DefaultFlags EXCEPT !.ipv4_only = v4, !.ipv6_only = v6]
          /\ result' = cli_optimize_keep_comments(source_a, v4, v6)
    /\ UNCHANGED <<source_a, source_b, target, sub>>

ApiMergeKeep ==
    /\ op = "none"
    /\ op' = "api_merge_keep"
    /\ result' = merge_keep_comments(source_a, source_b)
    /\ UNCHANGED <<source_a, source_b, target, flags, sub>>

CliMergeKeep ==
    /\ op = "none"
    /\ op' = "cli_merge_keep"
    /\ result' = cli_merge_keep_comments(source_a, source_b)
    /\ UNCHANGED <<source_a, source_b, target, flags, sub>>

ApiAddKeep(net) ==
    /\ op = "none"
    /\ source_b = <<>>
    /\ op' = "api_add_keep"
    /\ target' = <<net>>
    /\ result' = add_keep_comments(source_a, net)
    /\ UNCHANGED <<source_a, source_b, flags, sub>>

CliAddKeep(net) ==
    /\ op = "none"
    /\ source_b = <<>>
    /\ op' = "cli_add_keep"
    /\ target' = <<net>>
    /\ result' = cli_add_keep_comments(source_a, net)
    /\ UNCHANGED <<source_a, source_b, flags, sub>>

NextAnnot ==
    \/ ApiOptimizeKeep
    \/ CliOptimizeKeep
    \/ ApiMergeKeep
    \/ CliMergeKeep
    \/ \E net \in AnnotNets : ApiAddKeep(net)
    \/ \E net \in AnnotNets : CliAddKeep(net)

SpecAnnot == InitAnnot /\ [][NextAnnot]_vars

\* ------------------------- candidates as text (data/file_reader.py)
\* A digit string is a sequence of digits: "010" is <<0, 1, 0>>.  A v4
\* candidate is [family |-> 4, groups |-> four digit strings, mask |-> digit
\* string or <<>>]; a v6 candidate holds the values of its eight groups.
\* A parsed network is [version, packed, prefixlen], packed being the groups
\* of its base address.

\* int(text, base): the digits read left to right.
RECURSIVE int_base(_, _)
int_base(text, base) ==
    IF text = <<>> THEN 0
    ELSE int_base(SubSeq(text, 1, Len(text) - 1), base) * base + text[Len(text)]

\* str(n) of a natural number: its decimal digits, no leading zero.
RECURSIVE str_int(_)
str_int(n) == IF n < 10 THEN <<n>> ELSE Append(str_int(n \div 10), n % 10)

None == [status |-> "None", value |-> <<>>]

group_bits(family) == IF family = 4 THEN 8 ELSE 16
group_count(family) == IF family = 4 THEN 4 ELSE 8

\* ipaddress rejects an octet of more than three digits, an octet with a
\* leading zero, and a value above 255.
octet_ok(t) ==
    /\ Len(t) \in 1 .. 3
    /\ Len(t) = 1 \/ t[1] # 0
    /\ int_base(t, 10) <= 255

\* The base address of address/len: the host bits of every group cleared.
mask_groups(values, w, len) ==
    [i \in DOMAIN values |->
        LET free == w * i - len
            host == IF free <= 0 THEN 0 ELSE IF free >= w THEN w ELSE free
        IN  values[i] - (values[i] % Pow2(host))]

\* The address part of a candidate is a valid address of its family.
address_ok(c) ==
    /\ Len(c.groups) = group_count(c.family)
    /\ IF c.family = 4
       THEN \A i \in DOMAIN c.groups : octet_ok(c.groups[i])
       ELSE \A i \in DOMAIN c.groups : c.groups[i] \in 0 .. 65535

group_values(c) ==
    IF c.family = 4
    THEN [i \in DOMAIN c.groups |-> int_base(c.groups[i], 10)]
    ELSE c.groups

\* ipaddress.ip_network(candidate, strict=False).
ip_network_str(c) ==
    LET width == group_bits(c.family) * group_count(c.family)
        len == IF c.mask = <<>> THEN width ELSE int_base(c.mask, 10)
    IN  IF address_ok(c) /\ len <= width
        THEN Ok([version |-> c.family,
                 packed |-> mask_groups(group_values(c), group_bits(c.family), len),
                 prefixlen |-> len])
        ELSE Raised("ValueError")

\* ipaddress.ip_address(text): no mask is accepted.
ip_address_str(c) ==
    IF address_ok(c) /\ c.mask = <<>>
    THEN Ok([version |-> c.family, packed |-> group_values(c)])
    ELSE Raised("ValueError")

\* Variant of clean_ip: the octets are read in base 8.
clean_ip_octal(ip_part) ==
    [i \in DOMAIN ip_part |-> str_int(int_base(ip_part[i], 8))]

\* Line 108: ".".join(str(int(octet)) for octet in ip_part.split('.')).
clean_ip(ip_part) ==
    [i \in DOMAIN ip_part |-> str_int(int_base(ip_part[i], 10))]

\* normalize_single_ip: strict parse, then the parse of the cleaned octets,
\* then the bare address upgraded to a host network.
normalize_single_ip(candidate) ==
    LET dotted == candidate.family = 4
        first == ip_network_str(candidate)
        second == ip_network_str([candidate EXCEPT !.groups = clean_ip(candidate.groups)])
        \* step 3 splits the whole candidate on '.', so that int() is handed
        \* the mask together with the last octet
        ip == IF dotted
              THEN IF candidate.mask # <<>>
                   THEN Raised("ValueError")
                   ELSE ip_address_str([candidate EXCEPT !.groups = clean_ip(candidate.groups)])
              ELSE ip_address_str(candidate)
    IN  IF first.status = "ok" THEN first
        ELSE IF dotted /\ second.status = "ok" THEN second
        ELSE IF ip.status = "ok"
        THEN Ok([version |-> ip.value.version, packed |-> ip.value.packed,
                 prefixlen |-> group_bits(ip.value.version) * group_count(ip.value.version)])
        ELSE None

\* The candidates of one family, in the order of the text.
parse_family(text, family) ==
    LET of_family(c) == c.family = family
    IN  SelectSeq(text, of_family)

parse_ipv4(text) == parse_family(text, 4)
parse_ipv6(text) == parse_family(text, 6)

RECURSIVE normalize_all(_, _)
normalize_all(all_candidates, k) ==
    IF k > Len(all_candidates) THEN <<>>
    ELSE LET network == normalize_single_ip(all_candidates[k])
         IN  (IF network.status = "ok" THEN <<network.value>> ELSE <<>>)
                \o normalize_all(all_candidates, k + 1)

\* extract_prefixes_from_text: a text is the sequence of its candidates.
extract_prefixes_from_text(text) ==
    normalize_all(parse_ipv4(text) \o parse_ipv6(text), 1)

\* What one line or item yields: the extracted prefixes, else the parse of
\* the whole text (which is a network only if it is a single candidate).
text_prefixes(text) ==
    LET prefixes == extract_prefixes_from_text(text)
        whole == IF Len(text) = 1 THEN ip_network_str(text[1]) ELSE Raised("ValueError")
    IN  IF prefixes # <<>> THEN prefixes
        ELSE IF whole.status = "ok" THEN <<whole.value>>
        ELSE <<>>

\* Variant of parse_lines_step: the limit is tested one line late.
parse_lines_step_late(line_iterator, st) ==
    LET line_num == st.line_num + 1
        line == line_iterator[line_num]
    IN  IF line_num > MAX_LINE_COUNT + 1
        THEN [st EXCEPT !.pc = "raised", !.line_num = line_num]
        ELSE IF line.kind \in {"blank", "comment"}
        THEN [st EXCEPT !.line_num = line_num]
        ELSE [st EXCEPT !.line_num = line_num,
                        !.yielded = st.yielded \o text_prefixes(line.text)]

\* One iteration of _parse_lines_generator (lines 172-203).
parse_lines_step(line_iterator, st) ==
    LET line_num == st.line_num + 1
        line == line_iterator[line_num]
    IN  IF line_num > MAX_LINE_COUNT
        THEN [st EXCEPT !.pc = "raised", !.line_num = line_num]
        ELSE IF line.kind \in {"blank", "comment"}
        THEN [st EXCEPT !.line_num = line_num]
        ELSE [st EXCEPT !.line_num = line_num,
                        !.yielded = st.yielded \o text_prefixes(line.text)]

\* Variant of read_json_step: the limit error ends the reader silently, as
\* the parse error does.
read_json_step_swallow(items, st) ==
    LET count == st.line_num + 1
        item == items[count]
    IN  IF item.kind = "malformed"
        THEN [st EXCEPT !.pc = "returned"]
        ELSE IF count > MAX_LINE_COUNT
        THEN [st EXCEPT !.pc = "returned", !.line_num = count]
        ELSE [st EXCEPT !.line_num = count,
                        !.yielded = st.yielded \o text_prefixes(item.text)]

\* One iteration of _read_json_generator (lines 257-276).  ijson.items
\* raises JSONError where the document is malformed; the generator catches
\* it and returns.  The ValueError of the limit is not a JSONError.
read_json_step(items, st) ==
    LET count == st.line_num + 1
        item == items[count]
    IN  IF item.kind = "malformed"
        THEN [st EXCEPT !.pc = "returned"]
        ELSE IF count > MAX_LINE_COUNT
        THEN [st EXCEPT !.pc = "raised", !.line_num = count]
        ELSE [st EXCEPT !.line_num = count,
                        !.yielded = st.yielded \o text_prefixes(item.text)]

\* ----------------------------------------------- the readers, line by line
\* Candidates written in the files read here: 010.0.0.1, 192.168.1.1/24,
\* 256.0.0.1 (not an address) and ::1.
ReaderCandidates ==
    { [family |-> 4, groups |-> << <<0, 1, 0>>, <<0>>, <<0>>, <<1>> >>, mask |-> <<>>],
      [family |-> 4, groups |-> << <<1, 9, 2>>, <<1, 6, 8>>, <<1>>, <<1>> >>, mask |-> <<2, 4>>],
      [family |-> 4, groups |-> << <<2, 5, 6>>, <<0>>, <<0>>, <<1>> >>, mask |-> <<>>],
      [family |-> 6, groups |-> <<0, 0, 0, 0, 0, 0, 0, 1>>, mask |-> <<>>] }

\* The candidates of a line, left to right: none (garbage), one, or two
\* different ones.
ReaderTexts ==
    {<<>>} \cup { <<c>> : c \in ReaderCandidates }
           \cup { <<p[1], p[2]>> : p \in { q \in ReaderCandidates \X ReaderCandidates : q[1] # q[2] } }

\* A line of text or an array item; "malformed" marks the place where a
\* JSON document stops being well-formed.
ReaderLines ==
    { [kind |-> "blank", text |-> <<>>], [kind |-> "comment", text |-> <<>>],
      [kind |-> "malformed", text |-> <<>>] }
    \cup { [kind |-> "text", text |-> t] : t \in ReaderTexts }

ReaderFiles(n) == UNION { [1 .. k -> ReaderLines] : k \in 0 .. n }

InitReader ==
    /\ source_a \in ReaderFiles(MAX_LINE_COUNT + 1)
    /\ source_b = <<>>
    /\ target = <<>>
    /\ flags = DefaultFlags
    /\ op = "none"
    /\ result = NoResult
    /\ sub = SubIdle

\* read_stream / _read_txt_generator start on a text of lines.
OpenLines ==
    /\ op = "none"
    /\ \A k \in DOMAIN source_a : source_a[k].kind # "malformed"
    /\ op' = "read_lines"
    /\ sub' = [pc |-> "reading", line_num |-> 0, yielded |-> <<>>]
    /\ UNCHANGED <<source_a, source_b, target, flags, result>>

\* _read_json_generator starts on the items of the array.
OpenJson ==
    /\ op = "none"
    /\ op' = "read_json"
    /\ sub' = [pc |-> "reading", line_num |-> 0, yielded |-> <<>>]
    /\ UNCHANGED <<source_a, source_b, target, flags, result>>

ParseLine ==
    /\ op = "read_lines"
    /\ sub.pc = "reading"
    /\ sub.line_num < Len(source_a)
    /\ LET nxt == parse_lines_step(source_a, sub)
       IN  /\ sub' = nxt
           /\ result' = IF nxt.pc = "raised" THEN Raised("line limit") ELSE result
    /\ UNCHANGED <<source_a, source_b, target, flags, op>>

ParseItem ==
    /\ op = "read_json"
    /\ sub.pc = "reading"
    /\ sub.line_num < Len(source_a)
    /\ LET nxt == read_json_step(source_a, sub)
       IN  /\ sub' = nxt
           /\ result' = IF nxt.pc = "raised" THEN Raised("item limit")
                        ELSE IF nxt.pc = "returned" THEN Ok(nxt.yielded)
                        ELSE result
    /\ UNCHANGED <<source_a, source_b, target, flags, op>>

\* The input is exhausted: the generator returns.
EndOfInput ==
    /\ op \in {"read_lines", "read_json"}
    /\ sub.pc = "reading"
    /\ sub.line_num = Len(source_a)
    /\ sub' = [sub EXCEPT !.pc = "returned"]
    /\ result' = Ok(sub.yielded)
    /\ UNCHANGED <<source_a, source_b, target, flags, op>>

NextReader == OpenLines \/ OpenJson \/ ParseLine \/ ParseItem \/ EndOfInput

SpecReader == InitReader /\ [][NextReader]_vars

\* -------------------------------------------------- the normalizer alone
OctetValues == {0, 1, 10, 168, 192, 256}

RECURSIVE zfill(_, _)
zfill(text, n) == IF Len(text) >= n THEN text ELSE zfill(<<0>> \o text, n)

\* The octet values written with and without leading zeros.
OctetTexts ==
    { zfill(str_int(v), n) : <<v, n>> \in OctetValues \X (1 .. 3) }

MaskTexts == { <<>>, <<8>>, <<2, 4>>, <<3, 2>>, <<3, 3>> }

NormCandidates ==
    [family : {4}, groups : [1 .. 4 -> OctetTexts], mask : MaskTexts]
    \cup [family : {6},
          groups : { <<0, 0, 0, 0, 0, 0, 0, 1>>, <<8193, 3512, 0, 0, 0, 0, 0, 1>> },
          mask : { <<>>, <<3, 2>>, <<1, 2, 9>> }]

InitNorm ==
    /\ source_a = <<>>
    /\ source_b = <<>>
    /\ target \in { <<c>> : c \in NormCandidates }
    /\ flags = DefaultFlags
    /\ op = "none"
    /\ result = NoResult
    /\ sub = SubIdle

Normalize ==
    /\ op = "none"
    /\ op' = "normalize"
    /\ result' = normalize_single_ip(target[1])
    /\ UNCHANGED <<source_a, source_b, target, flags, sub>>

NextNorm == Normalize

SpecNorm == InitNorm /\ [][NextNorm]_vars

\* ---------------------- process_prefixes as a filter (cli/filter.py)
\* The exclusions enabled one at a time, none of them and all of them, each
\* with and without bogons; the heavy stage is switched off.
FilterFlags ==
    { [k \in DOMAIN DefaultFlags |->
          IF k \in {"sort", "remove_nested", "aggregate", "ipv4_only", "ipv6_only"} THEN FALSE
          ELSE IF k = "bogons" THEN b
          ELSE k \in on]
      : <<on, b>> \in ({{}, ExcludeFlags} \cup { {k} : k \in ExcludeFlags }) \X BOOLEAN }

InitFilter ==
    /\ source_a \in Inputs(MaxS)
    /\ source_b = <<>>
    /\ target = <<>>
    /\ flags = DefaultFlags
    /\ op = "none"
    /\ result = NoResult
    /\ sub = SubIdle

Filter ==
    /\ op = "none"
    /\ \E f \in FilterFlags :
          /\ flags' = f
          /\ result' = Ok(process_prefixes(source_a, f))
    /\ op' = "filter"
    /\ UNCHANGED <<source_a, source_b, target, sub>>

NextFilter == Filter

SpecFilter == InitFilter /\ [][NextFilter]_vars

\* ------------------------------------------------------------- splitting
\* Target lengths tried: every length of the wider family and one beyond.
Lengths == 0 .. (IF V4Bits >= V6Bits THEN V4Bits ELSE V6Bits) + 1

SplitArgs == [length : Lengths, max_subnets : {1, DEFAULT_MAX_SUBNETS}]

InitSplit ==
    /\ \/ source_a = <<>> /\ target \in { <<t>> : t \in Targets }
       \/ source_a \in Inputs(MaxA) /\ target = <<>>
    /\ source_b = <<>>
    /\ flags \in SplitArgs
    /\ op = "none"
    /\ result = NoResult
    /\ sub = SubIdle

\* split_network called with an explicit max_subnets.
SplitNetwork ==
    /\ op = "none"
    /\ target # <<>>
    /\ op' = "split_network"
    /\ result' = split_network(normalize_prefix(target[1]), flags.length, flags.max_subnets)
    /\ UNCHANGED <<source_a, source_b, target, flags, sub>>

\* api.split and cli split run with the default max_subnets.
ApiSplit ==
    /\ op = "none"
    /\ target # <<>>
    /\ flags.max_subnets = DEFAULT_MAX_SUBNETS
    /\ op' = "api_split"
    /\ result' = split(target[1], flags.length)
    /\ UNCHANGED <<source_a, source_b, target, flags, sub>>

CliSplit ==
    /\ op = "none"
    /\ target = <<>>
    /\ flags.max_subnets = DEFAULT_MAX_SUBNETS
    /\ op' = "cli_split"
    /\ result' = cli_split(flags.length, source_a)
    /\ UNCHANGED <<source_a, source_b, target, flags, sub>>

NextSplit == SplitNetwork \/ ApiSplit \/ CliSplit

SpecSplit == InitSplit /\ [][NextSplit]_vars

\* ----------------------------------------------------------------- check
InitCheck ==
    /\ source_a \in Inputs(MaxS)
    /\ source_b = <<>>
    /\ target \in { <<t>> : t \in CheckTargets }
    /\ flags = DefaultFlags
    /\ op = "none"
    /\ result = NoResult
    /\ sub = SubIdle

ApiCheck ==
    /\ op = "none"
    /\ op' = "api_check"
    /\ result' = Ok(check(target[1], source_a))
    /\ UNCHANGED <<source_a, source_b, target, flags, sub>>

CliCheck ==
    /\ op = "none"
    /\ op' = "cli_check"
    /\ result' = cli_check(target[1], source_a)
    /\ UNCHANGED <<source_a, source_b, target, flags, sub>>

NextCheck == ApiCheck \/ CliCheck

SpecCheck == InitCheck /\ [][NextCheck]_vars

\* ------------------------------------------- the target argument of a verb
InitTarget ==
    /\ source_a \in Inputs(MaxA)
    /\ source_b = <<>>
    /\ target \in { <<t>> : t \in TargetArgs }
    /\ flags = FullFlags
    /\ op = "none"
    /\ result = NoResult
    /\ sub = SubIdle

ApiExcludeTarget ==
    /\ op = "none"
    /\ op' = "api_exclude"
    /\ result' = exclude(source_a, load_text(target[1]))
    /\ UNCHANGED <<source_a, source_b, target, flags, sub>>

CliExcludeTarget ==
    /\ op = "none"
    /\ op' = "cli_exclude"
    /\ result' = cli_exclude(target[1], source_a)
    /\ UNCHANGED <<source_a, source_b, target, flags, sub>>

ApiCheckTarget ==
    /\ op = "none"
    /\ op' = "api_check"
    /\ result' = Ok(check(target[1], source_a))
    /\ UNCHANGED <<source_a, source_b, target, flags, sub>>

CliCheckTarget ==
    /\ op = "none"
    /\ op' = "cli_check"
    /\ result' = cli_check(target[1], source_a)
    /\ UNCHANGED <<source_a, source_b, target, flags, sub>>

ApiAddTarget ==
    /\ op = "none"
    /\ op' = "api_add"
    /\ result' = api_add(source_a, target[1])
    /\ UNCHANGED <<source_a, source_b, target, flags, sub>>

CliAddTarget ==
    /\ op = "none"
    /\ op' = "cli_add"
    /\ result' = cli_add(target[1], source_a)
    /\ UNCHANGED <<source_a, source_b, target, flags, sub>>

NextTarget ==
    \/ ApiExcludeTarget
    \/ CliExcludeTarget
    \/ ApiCheckTarget
    \/ CliCheckTarget
    \/ ApiAddTarget
    \/ CliAddTarget

SpecTarget == InitTarget /\ [][NextTarget]_vars

\* ------------------------------------------------ cli diff (cli/diff.py)
DiffMode == {"changes", "added", "removed", "unchanged", "all"}

\* The lines "<mark><net>" of one group of the report.
marked(mark, nets) == [k \in 1 .. Len(nets) |-> [mark |-> mark, net |-> nets[k]]]

\* What cli diff leaves behind: its exit code, the lines of the report file
\* and the counts it printed.
DiffExit(code, written, summary) ==
    [status |-> "exit",
     value |-> [exit_code |-> code, written |-> written, summary |-> summary]]

\* Variant of cli_diff: the default mode also reports the unchanged group.
cli_diff_changes_all(new_file, old_file, mode, summary_only, f) ==
    LET nets_new == process_prefixes(new_file, f)
        nets_old == process_prefixes(old_file, f)
        d == calculate_diff(nets_new, nets_old)
        show_added == mode \in {"changes", "added", "all"}
        show_removed == mode \in {"changes", "removed", "all"}
        show_unchanged == mode \in {"changes", "unchanged", "all"}
        sorted_added == IF show_added THEN sort_networks(SetToList(d.added)) ELSE <<>>
        sorted_removed == IF show_removed THEN sort_networks(SetToList(d.removed)) ELSE <<>>
        sorted_unchanged == IF show_unchanged THEN sort_networks(SetToList(d.unchanged)) ELSE <<>>
    IN  IF summary_only
        THEN DiffExit(0, <<>>,
                 (IF show_added THEN <<[label |-> "Added", count |-> Cardinality(d.added)]>> ELSE <<>>)
              \o (IF show_removed THEN <<[label |-> "Removed", count |-> Cardinality(d.removed)]>> ELSE <<>>)
              \o (IF show_unchanged THEN <<[label |-> "Unchanged", count |-> Cardinality(d.unchanged)]>> ELSE <<>>))
        ELSE DiffExit(0, marked("+ ", sorted_added) \o marked("- ", sorted_removed)
                            \o marked("= ", sorted_unchanged), <<>>)

\* cli diff NEW OLD -o FILE --mode MODE [--summary]: both files go through
\* the full pipeline (lines 48-63), calculate_diff gives three sets, the
\* mode selects the groups (69-71); --summary prints the counts and returns
\* before any file is written (74-81); otherwise the selected groups are
\* sorted and written added, removed, unchanged (84-98).
cli_diff(new_file, old_file, mode, summary_only, f) ==
    LET nets_new == process_prefixes(new_file, f)
        nets_old == process_prefixes(old_file, f)
        d == calculate_diff(nets_new, nets_old)
        show_added == mode \in {"changes", "added", "all"}
        show_removed == mode \in {"changes", "removed", "all"}
        show_unchanged == mode \in {"unchanged", "all"}
        sorted_added == IF show_added THEN sort_networks(SetToList(d.added)) ELSE <<>>
        sorted_removed == IF show_removed THEN sort_networks(SetToList(d.removed)) ELSE <<>>
        sorted_unchanged == IF show_unchanged THEN sort_networks(SetToList(d.unchanged)) ELSE <<>>
    IN  IF summary_only
        THEN DiffExit(0, <<>>,
                 (IF show_added THEN <<[label |-> "Added", count |-> Cardinality(d.added)]>> ELSE <<>>)
              \o (IF show_removed THEN <<[label |-> "Removed", count |-> Cardinality(d.removed)]>> ELSE <<>>)
              \o (IF show_unchanged THEN <<[label |-> "Unchanged", count |-> Cardinality(d.unchanged)]>> ELSE <<>>))
        ELSE DiffExit(0, marked("+ ", sorted_added) \o marked("- ", sorted_removed)
                            \o marked("= ", sorted_unchanged), <<>>)

\* The two files of a diff: at most MaxA different prefixes each.
DiffFiles == { SetToList(S) : S \in { T \in SUBSET IPNet : Cardinality(T) <= MaxA } }

InitDiff ==
    /\ source_a \in DiffFiles
    /\ source_b \in DiffFiles
    /\ target \in { <<mode, summary_only>> : mode \in DiffMode, summary_only \in BOOLEAN }
    /\ flags = FullFlags
    /\ op = "none"
    /\ result = NoResult
    /\ sub = SubIdle

CliDiff ==
    /\ op = "none"
    /\ op' = "cli_diff"
    /\ result' = cli_diff(source_a, source_b, target[1], target[2], flags)
    /\ UNCHANGED <<source_a, source_b, target, flags, sub>>

NextDiff == CliDiff

SpecDiff == InitDiff /\ [][NextDiff]_vars

\* ---------------------------------- the overlap scan over every prefix
\* The sets handed to intersect: at most MaxB and MaxA different prefixes,
\* of any length of either family.
ScanSets(n) == { SetToList(S) : S \in { T \in SUBSET AllNets : Cardinality(T) <= n } }

InitScan ==
    /\ source_a \in ScanSets(MaxB)
    /\ source_b \in ScanSets(MaxA)
    /\ target = <<>>
    /\ flags = DefaultFlags
    /\ op = "none"
    /\ result = NoResult
    /\ sub = SubIdle

NextScan == Intersect

SpecScan == InitScan /\ [][NextScan]_vars

\* --------------------------------- subtract_networks: one source, one exclude
\* The source is the fragment f and the exclude is e, any two prefixes.
InitPunch ==
    /\ source_a \in { <<f>> : f \in AllNets }
    /\ source_b \in { <<e>> : e \in AllNets }
    /\ target = <<>>
    /\ flags = DefaultFlags
    /\ op = "none"
    /\ result = NoResult
    /\ sub = SubIdle

NextPunch == SubStart \/ SubSource \/ SubReturn

SpecPunch == InitPunch /\ [][NextPunch]_vars

\* ------------------------- subtract_networks: excludes of both families
\* The exclude list holds one v4 and one v6 prefix, in either order.
MixedExcludes ==
    UNION { { <<e4, e6>>, <<e6, e4>> } :
              <<e4, e6>> \in { n \in IPNet : n.version = 4 } \X { n \in IPNet : n.version = 6 } }

InitMixed ==
    /\ source_a \in Inputs(MaxA)
    /\ source_b \in MixedExcludes
    /\ target = <<>>
    /\ flags = DefaultFlags
    /\ op = "none"
    /\ result = NoResult
    /\ sub = SubIdle

NextMixed == SubStart \/ SubSource \/ SubReturn

SpecMixed == InitMixed /\ [][NextMixed]_vars

\* --------------------------- process_prefixes: the filters and stage 2
\* Every combination of sort, remove_nested and aggregate, with no version
\* flag or one of them, and with no exclusion, exclude_unspecified,
\* exclude_private or bogons.
StageFlags ==
    { [k \in DOMAIN DefaultFlags |->
          CASE k = "sort" -> c[1]
            [] k = "remove_nested" -> c[2]
            [] k = "aggregate" -> c[3]
            [] k = "ipv4_only" -> ver = 4
            [] k = "ipv6_only" -> ver = 6
            [] OTHER -> k = ex]
      : <<c, ver, ex>> \in [1 .. 3 -> BOOLEAN] \X {0, 4, 6}
                            \X {"none", "exclude_unspecified", "exclude_private", "bogons"} }

ProcessFiltered ==
    /\ op = "none"
    /\ \E f \in StageFlags :
          /\ flags' = f
          /\ result' = Ok(process_prefixes(source_a, f))
    /\ op' = "process_prefixes"
    /\ UNCHANGED <<source_a, source_b, target, sub>>

NextStages == ProcessFiltered

InitStages ==
    /\ source_a \in Inputs(MaxA)
    /\ source_b = <<>>
    /\ target = <<>>
    /\ flags = DefaultFlags
    /\ op = "none"
    /\ result = NoResult
    /\ sub = SubIdle

SpecStages == InitStages /\ [][NextStages]_vars

\* ================================================================= claims
\* A canonical set: no two prefixes overlap, no two are the halves of a
\* common parent, and the list ascends by (family, base address, length).
Canonical(s) ==
    /\ \A i, j \in DOMAIN s :
          i < j => ~overlaps(s[i], s[j]) /\ ~siblings(s[i], s[j])
    /\ IsSorted(s)

Returned == result.status = "ok"
FullRun == op \in {"process_prefixes", "optimize"} /\ flags = FullFlags

\* C1. Subtract coverage: the fragments returned by subtract_networks(A, E)
\* cover, per family, exactly the addresses of A that are not addresses of E.
SubtractCoverage ==
    (sub.pc = "done" /\ Returned) =>
        CoverOf(result.value) = CoverOf(source_a) \ CoverOf(source_b)

\* C1 witness: a run that returned after punching a hole into a source.
SubtractCoverageWitness ==
    /\ sub.pc = "done" /\ Returned
    /\ source_b # <<>>
    /\ \E n \in Range(result.value) : n \notin Range(source_a)

\* C2. Coverage preservation: the output of the full pipeline (sort,
\* remove_nested, aggregate, no filter flag) covers the addresses of its input.
CoveragePreserved ==
    FullRun => CoverOf(result.value) = CoverOf(source_a)

\* C2 witness: a full run over both families that built a parent prefix.
CoveragePreservedWitness ==
    /\ FullRun
    /\ \E n \in Range(result.value) : n \notin Range(source_a)
    /\ \E n \in Range(result.value) : n.version = 6

\* C3. The list returned by optimize with default flags, merge, add and
\* exclude is a canonical set.
CanonicalResult ==
    (/\ Returned
     /\ \/ op \in {"merge", "add", "exclude"}
        \/ op = "optimize" /\ flags = FullFlags)
    => Canonical(result.value)

\* C3 witness: exclude returned several prefixes, one of them a fragment.
CanonicalResultWitness ==
    /\ op = "exclude" /\ Returned
    /\ Len(result.value) >= 2
    /\ \E n \in Range(result.value) : n \notin Range(source_a)

\* C4. Canonicalization is idempotent: the full pipeline applied to its own
\* output returns that output, element for element.
Idempotent ==
    FullRun => process_prefixes(result.value, FullFlags) = result.value

\* C4 witness: a full run that changed its input and kept several prefixes.
IdempotentWitness ==
    /\ FullRun
    /\ result.value # source_a
    /\ Len(result.value) >= 2

\* C5. Intersect contract: intersect(A, B) covers exactly the addresses that
\* are in both inputs, as a canonical set.
IntersectContract ==
    op = "intersect" =>
        /\ CoverOf(result.value) = CoverOf(source_a) \cap CoverOf(source_b)
        /\ Canonical(result.value)

\* C6. Semantic diff: inputs covering the same addresses give empty added
\* and removed, and unchanged is the common canonical set.
SemanticDiff ==
    (op = "diff" /\ CoverOf(source_a) = CoverOf(source_b)) =>
        /\ result.value.added = <<>>
        /\ result.value.removed = <<>>
        /\ result.value.unchanged = process_prefixes(source_a, FullFlags)
        /\ result.value.unchanged = process_prefixes(source_b, FullFlags)

\* C6 witness: same addresses, partitioned differently in the two inputs.
SemanticDiffWitness ==
    /\ op = "diff"
    /\ CoverOf(source_a) = CoverOf(source_b)
    /\ Range(source_a) \cap Range(source_b) = {}
    /\ source_a # <<>>

\* C7 as stated. Diff completeness with all three parts read on address
\* sets: added and removed share no address, added with unchanged covers
\* new, removed with unchanged covers old.
DiffCompletenessAddresses ==
    op = "diff" =>
        /\ CoverOf(result.value.added) \cap CoverOf(result.value.removed) = {}
        /\ CoverOf(result.value.added) \cup CoverOf(result.value.unchanged) = CoverOf(source_a)
        /\ CoverOf(result.value.removed) \cup CoverOf(result.value.unchanged) = CoverOf(source_b)

\* C7 amended. added and removed share no prefix; added with unchanged
\* covers exactly the addresses of new, removed with unchanged those of old.
DiffCompleteness ==
    op = "diff" =>
        /\ Range(result.value.added) \cap Range(result.value.removed) = {}
        /\ CoverOf(result.value.added) \cup CoverOf(result.value.unchanged) = CoverOf(source_a)
        /\ CoverOf(result.value.removed) \cup CoverOf(result.value.unchanged) = CoverOf(source_b)

\* C7 witness: a diff with two added prefixes and a removed one.
DiffCompletenessWitness ==
    /\ op = "diff"
    /\ Len(result.value.added) >= 2
    /\ result.value.removed # <<>>

\* C8. Subtract round-trip: the addresses of exclude(A, E) together with
\* those of intersect(A, E) are exactly the addresses of A.
SubtractRoundTrip ==
    (op = "intersect" /\ exclude(source_a, source_b).status = "ok") =>
        CoverOf(exclude(source_a, source_b).value) \cup CoverOf(result.value)
            = CoverOf(source_a)

\* The fragments A - E consists of: every source, in sorted order, cut by
\* every exclude of the canonical exclude list.
RECURSIVE CutByAll(_, _, _)
CutByAll(frags, E, k) ==
    IF k > Len(E) THEN frags ELSE CutByAll(cut_fragments(frags, E[k]), E, k + 1)

RECURSIVE FragmentsOf(_, _)
FragmentsOf(sources_list, E) ==
    IF sources_list = <<>> THEN <<>>
    ELSE CutByAll(<<sources_list[1]>>, E, 1) \o FragmentsOf(Tail(sources_list), E)

OutputFragments == FragmentsOf(sort_networks(source_a), prepare_excludes(source_b))

\* C9. Safety fuse: subtract_networks aborts exactly when the number of
\* output fragments exceeds MAX_OUTPUT_FRAGMENTS, and it never returns a
\* list longer than that limit.
SafetyFuse ==
    sub.pc = "done" =>
        /\ (result.status = "error") <=> (Len(OutputFragments) > MAX_OUTPUT_FRAGMENTS)
        /\ Returned => Len(result.value) <= MAX_OUTPUT_FRAGMENTS

\* C10. Version flags: with ipv6_only the output holds no v4 prefix and with
\* ipv4_only it holds no v6 prefix, for every combination of the flags.
VersionFlags ==
    op \in {"process_prefixes", "optimize"} =>
        /\ flags.ipv6_only => \A n \in Range(result.value) : n.version # 4
        /\ flags.ipv4_only => \A n \in Range(result.value) : n.version # 6

\* C9 without the early return: a call with a non-empty exclude list.
SafetyFuseNonEmpty == source_b # <<>> => SafetyFuse

\* ------------------------------------------------ keep-comments workflows
KeepOps == {"api_optimize_keep", "cli_optimize_keep", "api_merge_keep",
            "cli_merge_keep", "api_add_keep", "cli_add_keep"}

\* The (prefix, comment) pairs the workflow read, in input order; the version
\* flags of cli optimize select a family.
AnnotInput ==
    LET selected(pair) == /\ ~(flags.ipv4_only /\ pair[1].version # 4)
                          /\ ~(flags.ipv6_only /\ pair[1].version # 6)
    IN  SelectSeq(file_pairs(source_a, 1) \o file_pairs(source_b, 1), selected)

\* The comment of the first occurrence of net that has one, "" if none has.
RECURSIVE FirstComment(_, _, _)
FirstComment(stream, net, k) ==
    IF k > Len(stream) THEN ""
    ELSE IF stream[k][1] = net /\ stream[k][2] # "" THEN stream[k][2]
    ELSE FirstComment(stream, net, k + 1)

\* C11. Annotated dedup rule: in every keep-comments workflow a prefix of the
\* input is in the output once, with the comment of its first occurrence
\* that has a non-empty comment (empty if no occurrence has one).
AnnotatedDedup ==
    (op \in KeepOps /\ Returned) =>
        \A k \in DOMAIN AnnotInput :
            LET net == AnnotInput[k][1]
            IN  /\ Cardinality({ j \in DOMAIN result.value : result.value[j][1] = net }) = 1
                /\ \A j \in DOMAIN result.value :
                      result.value[j][1] = net =>
                          result.value[j][2] = FirstComment(AnnotInput, net, 1)

\* The rule of C11 on the workflows other than cli add.
AnnotatedDedupOptimizeMerge ==
    op = "cli_add_keep" \/ AnnotatedDedup

OutputNets == [k \in DOMAIN result.value |-> result.value[k][1]]

\* Ascending by (family, base address, prefix length), no prefix twice.
StrictlyAscending(nets) ==
    \A i, j \in DOMAIN nets :
        i < j => /\ nets[i] # nets[j]
                 /\ \/ nets[i].version < nets[j].version
                    \/ /\ nets[i].version = nets[j].version
                       /\ \/ nets[i].network_address < nets[j].network_address
                          \/ /\ nets[i].network_address = nets[j].network_address
                             /\ nets[i].prefixlen < nets[j].prefixlen

\* C12. Keep-comments mode applies only dedup and sort: the prefixes returned
\* by optimize and merge with keep_comments are exactly the distinct prefixes
\* read (of the selected family under a version flag of cli optimize), each
\* once, nested and sibling prefixes kept, ordered by (family, base address,
\* prefix length).
KeepCommentsDedupSort ==
    (/\ op \in {"api_optimize_keep", "cli_optimize_keep", "api_merge_keep", "cli_merge_keep"}
     /\ Returned)
    => /\ Range(OutputNets) = { AnnotInput[k][1] : k \in DOMAIN AnnotInput }
       /\ StrictlyAscending(OutputNets)

\* C12 witness: a merge of two files that hold a duplicate, a parent and
\* its two halves returned all three prefixes.
KeepCommentsDedupSortWitness ==
    /\ op = "cli_merge_keep" /\ Returned
    /\ Len(AnnotInput) > Len(result.value)
    /\ { n \in AnnotNets : n.version = 4 } \subseteq Range(OutputNets)

\* ------------------------------------------------------------ the readers
Reading == op \in {"read_lines", "read_json"}

\* How many prefixes the candidates of the first n lines normalize to.
RECURSIVE PrefixCount(_, _)
PrefixCount(lines, n) ==
    IF n = 0 THEN 0
    ELSE PrefixCount(lines, n - 1)
         + Cardinality({ k \in DOMAIN lines[n].text :
                            normalize_single_ip(lines[n].text[k]).status = "ok" })

\* The lines before the place where a JSON document is malformed.
WellFormed(lines) ==
    IF \E k \in DOMAIN lines : lines[k].kind = "malformed"
    THEN (CHOOSE k \in DOMAIN lines :
             /\ lines[k].kind = "malformed"
             /\ \A j \in 1 .. k - 1 : lines[j].kind # "malformed") - 1
    ELSE Len(lines)

\* C13. Limit enforcement inside the reader: every line or item counts; an
\* input of at most MAX_LINE_COUNT lines never raises the limit error, a
\* longer one raises it on line MAX_LINE_COUNT + 1, and nothing of that line
\* or of a later one is ever yielded.
LimitEnforcement ==
    Reading =>
        LET lines == WellFormed(source_a)
            read == IF sub.line_num > MAX_LINE_COUNT THEN MAX_LINE_COUNT ELSE sub.line_num
        IN  /\ Len(sub.yielded) = PrefixCount(source_a, read)
            /\ sub.pc = "raised" => sub.line_num = MAX_LINE_COUNT + 1
            /\ (sub.pc = "raised") = (result.status = "error")
            /\ lines <= MAX_LINE_COUNT => sub.pc # "raised"
            /\ (lines > MAX_LINE_COUNT /\ sub.pc # "reading") => sub.pc = "raised"

\* C13 witness: the limit error was raised after blank or comment lines were
\* counted and a prefix of an earlier line was yielded.
LimitEnforcementWitness ==
    /\ op = "read_lines" /\ sub.pc = "raised"
    /\ \E k \in 1 .. MAX_LINE_COUNT : source_a[k].kind \in {"blank", "comment"}
    /\ sub.yielded # <<>>
    /\ source_a[MAX_LINE_COUNT + 1].text # <<>>

Count(s, x) == Cardinality({ k \in DOMAIN s : s[k] = x })

SamePrefixes(s, t) ==
    /\ Len(s) = Len(t)
    /\ \A x \in Range(s) \cup Range(t) : Count(s, x) = Count(t, x)

\* yielded, from position pos on, is made of the prefixes of items
\* n, n + 1, .., last, item after item.
RECURSIVE ItemAfterItem(_, _, _, _, _)
ItemAfterItem(yielded, pos, items, n, last) ==
    IF n > last THEN pos = Len(yielded) + 1
    ELSE LET cnt == PrefixCount(items, n) - PrefixCount(items, n - 1)
         IN  /\ pos + cnt - 1 <= Len(yielded)
             /\ SamePrefixes(SubSeq(yielded, pos, pos + cnt - 1),
                             normalize_all(items[n].text, 1))
             /\ ItemAfterItem(yielded, pos + cnt, items, n + 1, last)

\* C14. Tolerated JSON tail: when the document is malformed after k items,
\* the JSON reader yields the prefixes of those k items, in item order, and
\* returns without an error; the limit error is raised, not swallowed.
JsonTail ==
    (op = "read_json" /\ sub.pc # "reading") =>
        LET k == WellFormed(source_a)
        IN  IF k <= MAX_LINE_COUNT
            THEN /\ result.status = "ok"
                 /\ result.value = sub.yielded
                 /\ ItemAfterItem(sub.yielded, 1, source_a, 1, k)
            ELSE /\ result.status = "error"
                 /\ ItemAfterItem(sub.yielded, 1, source_a, 1, MAX_LINE_COUNT)

\* C14 witness: a document malformed after items that held prefixes, with
\* more text behind the malformed place.
JsonTailWitness ==
    /\ op = "read_json" /\ sub.pc = "returned"
    /\ WellFormed(source_a) = 1
    /\ Len(source_a) = 3
    /\ sub.yielded # <<>>
    /\ source_a[3].text # <<>>

\* An octet text read as a base-10 number.
Decimal(t) ==
    IF Len(t) = 1 THEN t[1]
    ELSE IF Len(t) = 2 THEN 10 * t[1] + t[2]
    ELSE 100 * t[1] + 10 * t[2] + t[3]

LeadingZeros(c) ==
    /\ c.family = 4
    /\ \E i \in DOMAIN c.groups : Len(c.groups[i]) > 1 /\ c.groups[i][1] = 0

DottedQuad(c) ==
    /\ c.family = 4
    /\ \A i \in DOMAIN c.groups : Decimal(c.groups[i]) <= 255
    /\ c.mask # <<>> => Decimal(c.mask) <= 32

\* Octet i of the base address of the decimal reading of c under /len.
BaseOctet(c, i, len) ==
    LET v == Decimal(c.groups[i])
    IN  IF 8 * i <= len THEN v
        ELSE IF 8 * (i - 1) >= len THEN 0
        ELSE (v \div Pow2(8 * i - len)) * Pow2(8 * i - len)

\* C15. Leading-zero defense: a dotted quad whose octets carry leading zeros
\* normalizes to the prefix of its base-10 reading: the mask kept, the host
\* bits cleared, a bare address made a /32.
LeadingZeroDefense ==
    (op = "normalize" /\ LeadingZeros(target[1]) /\ DottedQuad(target[1])) =>
        LET c == target[1]
            len == IF c.mask = <<>> THEN 32 ELSE Decimal(c.mask)
        IN  /\ result.status = "ok"
            /\ result.value = [version |-> 4,
                               packed |-> [i \in 1 .. 4 |-> BaseOctet(c, i, len)],
                               prefixlen |-> len]

\* C15 witness: 192.168.001.001/24 gave 192.168.1.0/24.
LeadingZeroDefenseWitness ==
    /\ op = "normalize"
    /\ target[1] = [family |-> 4,
                    groups |-> << <<1, 9, 2>>, <<1, 6, 8>>, <<0, 0, 1>>, <<0, 0, 1>> >>,
                    mask |-> <<2, 4>>]
    /\ result = Ok([version |-> 4, packed |-> <<192, 168, 1, 0>>, prefixlen |-> 24])

\* The prefixes of lines 1 .. n in the order of the text.
RECURSIVE TextOrder(_, _)
TextOrder(lines, n) ==
    IF n = 0 THEN <<>>
    ELSE TextOrder(lines, n - 1) \o normalize_all(lines[n].text, 1)

\* C16. The reader does not reorder: the prefixes of a line-oriented input
\* are yielded in line order and, within a line, left to right.
ReaderOrder ==
    (op = "read_lines" /\ sub.pc = "returned") =>
        sub.yielded = TextOrder(source_a, Len(source_a))

\* ------------------------------------------------------------- the filter
\* An exclusion is enabled by its own flag or by bogons.
Enabled(k) == flags.bogons \/ flags[k]

Excluded(n) ==
    \/ Enabled("exclude_private") /\ is_private(n)
    \/ Enabled("exclude_loopback") /\ is_loopback(n)
    \/ Enabled("exclude_link_local") /\ is_link_local(n)
    \/ Enabled("exclude_multicast") /\ is_multicast(n)
    \/ Enabled("exclude_reserved") /\ is_reserved(n)
    \/ Enabled("exclude_unspecified") /\ is_unspecified(n)

SplitTarget == normalize_prefix(target[1])

\* The split of SplitTarget to flags.length is allowed: the length is within
\* the family and the count within the cap.
SplitAllowed ==
    /\ SplitTarget.prefixlen <= flags.length
    /\ flags.length <= max_prefixlen(SplitTarget.version)
    /\ Pow2(flags.length - SplitTarget.prefixlen) <= flags.max_subnets

\* C18. Split round-trip: an allowed split(P, Lt) returns 2^(Lt-Lp) prefixes
\* of length Lt, pairwise disjoint, whose union is the address interval of P.
SplitRoundTrip ==
    (op \in {"split_network", "api_split"} /\ SplitAllowed) =>
        /\ result.status = "ok"
        /\ Len(result.value) = Pow2(flags.length - SplitTarget.prefixlen)
        /\ \A k \in DOMAIN result.value :
              /\ result.value[k] \in AllNets
              /\ result.value[k].prefixlen = flags.length
        /\ \A j, k \in DOMAIN result.value :
              j # k => addresses(result.value[j]) \cap addresses(result.value[k]) = {}
        /\ CoverOf(result.value) = addresses(SplitTarget)

\* C18 witness: api.split of a target written with host bits made several
\* subnets.
SplitRoundTripWitness ==
    /\ op = "api_split" /\ Returned
    /\ target[1].address # SplitTarget.network_address
    /\ Len(result.value) >= 2

\* A split of net to flags.length that must fail under the cap.
SplitFails(net, cap) ==
    \/ flags.length < net.prefixlen
    \/ /\ flags.length <= max_prefixlen(net.version)
       /\ Pow2(flags.length - net.prefixlen) > cap

\* C19. Split failures: split(P, Lt) raises when Lt < Lp and when 2^(Lt-Lp)
\* exceeds max_subnets, producing no subnet; cli split over several prefixes
\* exits with code 1 and writes nothing if one of them fails.
SplitFailures ==
    /\ (op \in {"split_network", "api_split"} /\ SplitFails(SplitTarget, flags.max_subnets))
          => result.status = "error"
    /\ (op \in {"split_network", "api_split"}
          /\ flags.length >= SplitTarget.prefixlen
          /\ flags.length <= max_prefixlen(SplitTarget.version)
          /\ Pow2(flags.length - SplitTarget.prefixlen) > flags.max_subnets)
          => result = Raised("exceeds the maximum")
    /\ (op = "cli_split"
          /\ \E k \in DOMAIN source_a : SplitFails(source_a[k], DEFAULT_MAX_SUBNETS))
          => result = Exit(1, <<>>)

\* C19 witness: cli split failed on a later prefix after an earlier one had
\* been split.
SplitFailuresWitness ==
    /\ op = "cli_split"
    /\ result.value.exit_code = 1
    /\ ~SplitFails(source_a[1], DEFAULT_MAX_SUBNETS)
    /\ flags.length <= max_prefixlen(source_a[1].version)
    /\ \E k \in 2 .. Len(source_a) : SplitFails(source_a[k], DEFAULT_MAX_SUBNETS)

\* ------------------------------------------------------------------ check
\* The addresses the target stands for: one address, or those of a prefix.
TargetAddresses ==
    LET t == target[1]
    IN  IF is_bare(t) THEN { <<t.version, t.address>> }
        ELSE addresses(ip_network(t.version, t.address, t.prefixlen))

CheckFound == IF op = "api_check" THEN result.value ELSE result.value.written

\* C20. Check returns the source prefixes of the target's family that
\* contain the target, in the order of the source, duplicates kept.
CheckResult ==
    op \in {"api_check", "cli_check"} =>
        LET holds(net) == /\ net.version = target[1].version
                          /\ TargetAddresses \subseteq addresses(net)
        IN  CheckFound = SelectSeq(source_a, holds)

\* C20 witness: the same containing prefix was found twice and another
\* source prefix was left out.
CheckResultWitness ==
    /\ op = "api_check"
    /\ Len(result.value) = 2
    /\ result.value[1] = result.value[2]
    /\ Len(source_a) = 3

\* C21: exclude, check or add called with a target argument that is no
\* address and no prefix ends in the error outcome (an exception from the
\* API, exit code 1 from the CLI) and produces no result list.
Fatal(r) ==
    \/ r.status = "error"
    \/ r.status = "exit" /\ r.value.exit_code = 1 /\ r.value.written = <<>>

TargetOps == {"api_exclude", "cli_exclude", "api_check", "cli_check",
              "api_add", "cli_add"}

TargetParseFatal ==
    (op \in TargetOps /\ ~parsable(target[1])) => Fatal(result)

\* The three CLI verbs and api.add do end in the error outcome.
TargetParseFatalDriver ==
    (op \in {"cli_exclude", "cli_check", "cli_add", "api_add"} /\ ~parsable(target[1]))
        => Fatal(result)

\* C22: for each --mode cli diff reports exactly the selected components
\* (changes: added and removed; added; removed; unchanged; all: the three of
\* them); every line of a file report is a prefix preceded by '+ ', '- ' or
\* '= ', the added lines come first, then the removed, then the unchanged,
\* and each group is sorted broadest-first.
Selected(mode) ==
    CASE mode = "changes" -> {"+ ", "- "}
      [] mode = "added" -> {"+ "}
      [] mode = "removed" -> {"- "}
      [] mode = "unchanged" -> {"= "}
      [] mode = "all" -> {"+ ", "- ", "= "}

\* The component a mark stands for, on the two canonical lists.
Component(mark) ==
    LET new_set == Range(process_prefixes(source_a, FullFlags))
        old_set == Range(process_prefixes(source_b, FullFlags))
    IN  CASE mark = "+ " -> new_set \ old_set
          [] mark = "- " -> old_set \ new_set
          [] mark = "= " -> new_set \cap old_set

MarkRank(mark) == CASE mark = "+ " -> 1 [] mark = "- " -> 2 [] mark = "= " -> 3

MarkLabel(mark) ==
    CASE mark = "+ " -> "Added" [] mark = "- " -> "Removed" [] mark = "= " -> "Unchanged"

Reported(lines, mark) == { lines[k].net : k \in { j \in 1 .. Len(lines) : lines[j].mark = mark } }

DiffModes ==
    op = "cli_diff" =>
        LET lines == result.value.written
            summary == result.value.summary
        IN  /\ result.value.exit_code = 0
            /\ ~target[2] =>
                 /\ \A k \in 1 .. Len(lines) : lines[k].mark \in Selected(target[1])
                 /\ \A mark \in Selected(target[1]) : Reported(lines, mark) = Component(mark)
                 /\ \A i, j \in 1 .. Len(lines) :
                        i < j =>
                          \/ MarkRank(lines[i].mark) < MarkRank(lines[j].mark)
                          \/ /\ lines[i].mark = lines[j].mark
                             /\ lines[i].net # lines[j].net
                             /\ sort_key_le(lines[i].net, lines[j].net)
            /\ target[2] =>
                 /\ lines = <<>>
                 /\ { summary[k].label : k \in 1 .. Len(summary) }
                        = { MarkLabel(mark) : mark \in Selected(target[1]) }
                 /\ \A k \in 1 .. Len(summary) :
                        \E mark \in Selected(target[1]) :
                            /\ summary[k].label = MarkLabel(mark)
                            /\ summary[k].count = Cardinality(Component(mark))

\* A report of mode all in which each of the three groups has a line.
DiffModesWitness ==
    /\ op = "cli_diff"
    /\ target = <<"all", FALSE>>
    /\ \A mark \in {"+ ", "- ", "= "} : Reported(result.value.written, mark) # {}

\* C23: for canonical inputs A and B the addresses covered by the result of
\* intersect include every address that is in both A and B.
IntersectSuperset ==
    (op = "intersect" /\ Canonical(source_a) /\ Canonical(source_b)) =>
        (CoverOf(source_a) \cap CoverOf(source_b)) \subseteq CoverOf(result.value)

\* Two canonical inputs with a common address, one prefix of the first
\* input overlapping the second input and one not.
IntersectSupersetWitness ==
    /\ op = "intersect"
    /\ Canonical(source_a)
    /\ Canonical(source_b)
    /\ Len(source_a) = 2
    /\ CoverOf(source_a) \cap CoverOf(source_b) # {}
    /\ CoverOf(source_a) \cap CoverOf(source_b) # CoverOf(source_a)

\* C29: the result of api.intersect depends only on the two sets of
\* prefixes: every order in which the nested scan can enumerate the two
\* sets returns the same list.
IntersectDeterministic ==
    op = "intersect" =>
        \A list_a \in Orders(Range(load(source_a))), list_b \in Orders(Range(load(source_b))) :
            intersect(list_a, list_b) = result.value

\* C24: when the exclude e lies strictly within the fragment f (same family,
\* Le > Lf), f is replaced by exactly Le - Lf blocks, one of each length
\* Lf+1 .. Le, pairwise disjoint, none overlapping e, whose union is the
\* interval of f without the interval of e.
\* The one source has been through steps A and B.
Punched == (sub.pc = "loop" /\ sub.i = 2) \/ sub.pc = "done"

StrictlyWithin(e, f) ==
    /\ e.version = f.version
    /\ e.prefixlen > f.prefixlen
    /\ is_subnet_of(e, f)

HolePunchPartition ==
    (Punched /\ StrictlyWithin(source_b[1], source_a[1])) =>
        LET f == source_a[1]
            e == source_b[1]
            blocks == sub.final_results
        IN  /\ Len(blocks) = e.prefixlen - f.prefixlen
            /\ \A len \in f.prefixlen + 1 .. e.prefixlen :
                   Cardinality({ k \in DOMAIN blocks : blocks[k].prefixlen = len }) = 1
            /\ \A j, k \in DOMAIN blocks :
                   j # k => addresses(blocks[j]) \cap addresses(blocks[k]) = {}
            /\ \A k \in DOMAIN blocks : ~overlaps(blocks[k], e)
            /\ Cover(Range(blocks)) = addresses(f) \ addresses(e)

\* A fragment cut by an exclude two lengths longer.
HolePunchPartitionWitness ==
    /\ Punched
    /\ StrictlyWithin(source_b[1], source_a[1])
    /\ source_b[1].prefixlen >= source_a[1].prefixlen + 2
    /\ Len(sub.final_results) >= 2

\* C25: during subtract_networks the cursor exclude_idx never decreases and
\* never exceeds the length of the canonical exclude list, and every exclude
\* below the cursor belongs to a lower family than the current source or
\* ends before its start, hence overlaps neither the current source nor any
\* source processed later.
CurrentSource ==
    IF sub.pc = "done" /\ result.status = "error" THEN sub.i ELSE sub.i - 1

LeftOf(e, source) ==
    \/ e.version < source.version
    \/ e.version = source.version /\ broadcast_address(e) < source.network_address

CursorInvariant ==
    (sub.pc \in {"loop", "done"} /\ source_b # <<>> /\ CurrentSource >= 1) =>
        /\ sub.exclude_idx <= Len(sub.excludes_list)
        /\ \A k \in 1 .. sub.exclude_idx :
              /\ LeftOf(sub.excludes_list[k], sub.sources_list[CurrentSource])
              /\ \A m \in CurrentSource .. Len(sub.sources_list) :
                    ~overlaps(sub.excludes_list[k], sub.sources_list[m])

MonotoneCursor ==
    /\ []CursorInvariant
    /\ [][sub'.exclude_idx >= sub.exclude_idx]_vars

\* The cursor has moved past an exclude and a later source has been
\* processed with the cursor where it was left.
MonotoneCursorWitness ==
    /\ sub.pc = "loop"
    /\ sub.i = 3
    /\ sub.exclude_idx >= 1
    /\ sub.sources_list[1] # sub.sources_list[2]

\* C26: the fragments of family v returned by subtract_networks(A, E) are
\* those returned when E is restricted to family v, and step B never hands
\* an exclude to the overlap test of a source or fragment of the other
\* family.
OfFamily(s, v) == SelectSeq(s, LAMBDA n : n.version = v)

CrossFamilyInert ==
    /\ (sub.pc = "done" /\ Returned) =>
          \A v \in {4, 6} :
              LET alone == subtract_networks(source_a, OfFamily(source_b, v))
              IN  alone.status = "ok" =>
                     OfFamily(result.value, v) = OfFamily(alone.value, v)
    /\ (sub.pc \in {"loop", "done"} /\ source_b # <<>> /\ CurrentSource >= 1) =>
          LET source == sub.sources_list[CurrentSource]
              walk == punch_trace(sub.excludes_list, sub.exclude_idx, source, <<source>>)
          IN  \A k \in DOMAIN walk.compared : walk.compared[k].version = source.version

\* Sources and excludes of both families, a source cut by the exclude of
\* its own family.
CrossFamilyInertWitness ==
    /\ sub.pc = "done" /\ Returned
    /\ \A v \in {4, 6} : OfFamily(source_a, v) # <<>> /\ OfFamily(source_b, v) # <<>>
    /\ \E n \in Range(result.value) : n \notin Range(source_a)

StepRank(step) ==
    CASE step = "sort" -> 1 [] step = "remove_nested" -> 2 [] step = "aggregate" -> 3

StageTrace == heavy_trace(filter_stage(source_a, flags), flags)

Ran(calls, step) == \E k \in DOMAIN calls : calls[k].step = step

PipelineOrder ==
    op = "process_prefixes" =>
        LET trace == StageTrace
            calls == trace.calls
        IN  /\ \A j, k \in DOMAIN calls :
                  j < k => StepRank(calls[j].step) < StepRank(calls[k].step)
            /\ flags.sort => Ran(calls, "sort")
            /\ Ran(calls, "remove_nested") <=> flags.remove_nested
            /\ Ran(calls, "aggregate") <=> flags.aggregate
            /\ \A k \in DOMAIN calls :
                  calls[k].step = "aggregate" =>
                      /\ IsSorted(calls[k].data)
                      /\ \E j \in 1 .. k - 1 : calls[j].step \in {"sort", "remove_nested"}
            /\ \A k \in DOMAIN calls :
                  (calls[k].step = "remove_nested" /\ calls[k].assume_sorted) =>
                      \E j \in 1 .. k - 1 : calls[j].step = "sort"
            /\ result.value = trace.data

\* No sort step, an input out of order: remove_nested is told the data is
\* not sorted and aggregate follows it.
PipelineOrderWitness ==
    /\ op = "process_prefixes"
    /\ ~flags.sort /\ flags.remove_nested /\ flags.aggregate
    /\ ~IsSorted(filter_stage(source_a, flags))
    /\ Len(StageTrace.calls) = 2
    /\ ~StageTrace.calls[1].assume_sorted

\* C28: the version and classification filters of process_prefixes are
\* applied before sort, remove-nested and aggregate: the result is the
\* canonicalization of the prefixes the filters keep, it covers their
\* addresses and no other, so an excluded prefix neither absorbs a kept
\* prefix nor merges with a kept sibling.
Dropped(n) ==
    \/ flags.ipv4_only /\ n.version # 4
    \/ flags.ipv6_only /\ n.version # 6
    \/ Excluded(n)

Survivors == SelectSeq(source_a, LAMBDA n : ~Dropped(n))

FilterFirst ==
    op = "process_prefixes" =>
        /\ result.value = heavy_stage(Survivors, flags)
        /\ CoverOf(result.value) = CoverOf(Survivors)

\* An excluded prefix covers a kept prefix, remove_nested and aggregate
\* are on, and the kept prefix is returned.
FilterFirstWitness ==
    /\ op = "process_prefixes"
    /\ flags.remove_nested /\ flags.aggregate
    /\ \E d, n \in Range(source_a) :
          /\ Dropped(d) /\ ~Dropped(n)
          /\ d # n /\ is_subnet_of(n, d)
          /\ n \in Range(result.value)

====
